---- MODULE Spec2Model ----
(***************************************************************************)
(* Cocoa trading desk: the signal fusion and narrative pipeline.           *)
(*                                                                         *)
(* One behaviour of Spec is one run of an entry point, either              *)
(* main.run_dashboard or generate_dashboard.generate_html: the weather     *)
(* analysis loops over the configured regions, the climate index and the   *)
(* fundamentals are read, and the fusion step (calculate_risk_appetite or  *)
(* calculate_verdict) and the narrative are computed from the classified   *)
(* records.                                                                *)
(*                                                                         *)
(* Numbers are exact integers: temperatures, rainfall, wind, humidity in   *)
(* tenths; the stocks-to-usage ratio and the ONI value in hundredths; the  *)
(* position multiplier in tenths (25 = 2.5x).  Python's None is the empty  *)
(* tuple and a present value v is <<v>>.  Display strings carry no emoji.  *)
(* A float that may be NaN (RSI, SMA) is a fraction <<num, den>>.  The     *)
(* market quote (get_market_data) and the HTML text are not part of this   *)
(* model.  The configured locations have distinct display names, so the    *)
(* regions dict has one entry per location and is kept as a sequence in    *)
(* insertion order.                                                        *)
(*                                                                         *)
(* SpecNarrative is generate_market_narrative called on its own, with      *)
(* every classified weather record and with or without a climate record,   *)
(* as market_narrative.main calls it.  SpecTechnical, SpecOni, SpecRegion  *)
(* and SpecNews call one component on a raw feed held in input:            *)
(* get_technical_analysis (followed by the narrative), get_enso_signal,    *)
(* the loop body of analyze_weather, and get_news_sentiment.               *)
(* SpecOniTokens is get_enso_signal on texts with words, sentinels and     *)
(* "nan" in the value columns.  SpecPersist is fetch_news_sentiment.main   *)
(* run any number of times on the file fundamentals.json (config),         *)
(* followed by one run of generate_html on the same file.                  *)
(***************************************************************************)
EXTENDS Integers, Sequences, FiniteSets, TLC

VARIABLES
    entry,          \* which program runs: "run_dashboard" or "generate_html"
    pc,             \* position of the run in the pipeline
    locations,      \* load_locations(): the configured regions, in file order
    results,        \* analyze_weather's results dict (returned as weather)
    ratio,          \* the stocks-to-usage ratio of the run (x100)
    enso,           \* get_enso_signal()'s record
    fundamentals,   \* get_fundamentals_analysis()'s record
    verdict,        \* what the fusion step returned
    narrative,      \* what generate_market_narrative returned
    tech_data,      \* get_technical_analysis()'s record
    input,          \* the raw feed handed to a component called on its own
    output,         \* what that component returned
    config          \* fundamentals.json: None when absent, else the dict it holds

vars == <<entry, pc, locations, results, ratio, enso, fundamentals, verdict, narrative,
          tech_data, input, output, config>>

\* ------------------------------------------------------------------ bounds
MaxRegions == 2     \* number of configured regions is 1..MaxRegions
WindowDays == 8     \* days in the current window (30 in production)
TailLen == 3        \* closing bars of a price history that move freely
MaxLines == 3       \* lines of an ONI text
MaxHeadlines == 3   \* headlines of a news feed

\* --------------------------------------------------------- optional values
None == <<>>
Some(v) == <<v>>

\* the float that is not a number
NaN == <<0, 0>>

RECURSIVE SumSeq(_)
SumSeq(s) == IF s = <<>> THEN 0 ELSE Head(s) + SumSeq(Tail(s))

\* [v for v in values if v is not None], unwrapped
RECURSIVE ValidValues(_)
ValidValues(s) ==
    IF s = <<>> THEN <<>>
    ELSE IF Head(s) = None THEN ValidValues(Tail(s))
    ELSE <<Head(s)[1]>> \o ValidValues(Tail(s))

\* sum(1 for t in values if t > limit)
RECURSIVE CountAbove(_, _)
CountAbove(s, limit) ==
    IF s = <<>> THEN 0
    ELSE (IF Head(s) > limit THEN 1 ELSE 0) + CountAbove(Tail(s), limit)

\* ------------------------------------------------------------ weather feed
RegionNames == <<"San Pedro", "Kumasi", "Abengourou", "Takoradi">>

calculate_total_rainfall(precipitation_values) ==
    SumSeq(ValidValues(precipitation_values))

\* one year's daily precipitation, total 100 / 100 (with a gap) / 60 / 40 / 20
WetYear  == <<Some(60), Some(40)>>
GapYear  == <<Some(100), None>>
MidYear  == <<Some(60), None>>
LowYear  == <<None, Some(40)>>
DryYear  == <<Some(20), None>>

\* the five windows, 2021..2025; the last one is the current year
RainFeeds ==
    { <<WetYear, GapYear, WetYear, WetYear, DryYear>>,    \* z = -1.79
      <<WetYear, WetYear, MidYear, GapYear, LowYear>>,    \* z = -1.41
      <<DryYear, WetYear, WetYear, WetYear, GapYear>>,    \* z = +0.45
      <<WetYear, GapYear, WetYear, GapYear, WetYear>> }   \* stdev = 0

\* k days at 33.0, then one day at exactly 32.0, the rest missing
TempFeed(k) ==
    [i \in 1..WindowDays |->
        IF i <= k THEN Some(330) ELSE IF i = k + 1 THEN Some(320) ELSE None]
TempFeeds == { TempFeed(6), TempFeed(7) }

WindFeed(w) == [i \in 1..WindowDays |-> IF i = 1 THEN None ELSE Some(w)]
WindFeeds == { WindFeed(460), WindFeed(470) }

HumidityFeed(h) == [i \in 1..WindowDays |-> IF i = 1 THEN None ELSE Some(h)]
HumidityFeeds ==
    { HumidityFeed(390), HumidityFeed(400), [i \in 1..WindowDays |-> None] }

RegionFeeds ==
    [precipitation: RainFeeds, temperature_2m_max: TempFeeds,
     wind_speed_10m_max: WindFeeds, relative_humidity_2m_mean: HumidityFeeds]

\* a year whose only reading is its total
YearOf(total) == <<Some(total), None>>

\* yearly totals with mean 100 and standard deviation 2
BoundaryRainFeeds ==
    { <<YearOf(102), YearOf(101), YearOf(101), YearOf(99), YearOf(97)>>,   \* z = -1.5
      <<YearOf(103), YearOf(101), YearOf(99), YearOf(99), YearOf(98)>> }   \* z = -1.0

MissingFeed == [i \in 1..WindowDays |-> None]

\* five windows without a single precipitation reading: every total is 0
SilentYear == <<None, None>>
SilentRainFeeds == { <<SilentYear, SilentYear, SilentYear, SilentYear, SilentYear>> }

\* the feeds of a region assessed on its own: those above, the two
\* boundary rainfalls, a window without any temperature or wind reading
RegionBoundaryFeeds ==
    [precipitation: RainFeeds \cup BoundaryRainFeeds \cup SilentRainFeeds,
     temperature_2m_max: TempFeeds \cup {TempFeed(WindowDays), MissingFeed},
     wind_speed_10m_max: WindFeeds \cup {MissingFeed},
     relative_humidity_2m_mean: HumidityFeeds]

\* ------------------------------------------------------- weather analysis
\* statistics.stdev(values) = 0 (all values equal): the division raises
Deviation(values, x) == Len(values) * x - SumSeq(values)
RECURSIVE SumSqDev(_, _)
SumSqDev(values, all) ==
    IF values = <<>> THEN 0
    ELSE Deviation(all, Head(values)) * Deviation(all, Head(values))
         + SumSqDev(Tail(values), all)

StdevIsZero(values) == SumSqDev(values, values) = 0

\* z_score < -num/den, for z_score = (current - mean) / stdev, where
\* mean = S/n and stdev = sqrt(SS / (n*n*(n-1))) with S the sum and
\* SS the sum of the squares of (n*x - S): exact, no rounding
ZScoreBelow(values, current, num, den) ==
    LET d == Deviation(values, current)
    IN  /\ d < 0
        /\ den * den * (Len(values) - 1) * d * d
             > num * num * SumSqDev(values, values)

\* z_score = -num/den
ZScoreEquals(values, current, num, den) ==
    LET d == Deviation(values, current)
    IN  /\ d < 0
        /\ den * den * (Len(values) - 1) * d * d
             = num * num * SumSqDev(values, values)

\* variant: the two z-score thresholds are inclusive
drought_status_of_inclusive(values, current) ==
    IF ZScoreBelow(values, current, 15, 10) \/ ZScoreEquals(values, current, 15, 10)
    THEN "Severe Drought"
    ELSE IF ZScoreBelow(values, current, 10, 10) \/ ZScoreEquals(values, current, 10, 10)
    THEN "Dry Warning"
    ELSE "Normal"

drought_status_of(values, current) ==
    IF ZScoreBelow(values, current, 15, 10) THEN "Severe Drought"
    ELSE IF ZScoreBelow(values, current, 10, 10) THEN "Dry Warning"
    ELSE "Normal"

\* variant: a day at exactly 32.0 counts
days_above_32_of_inclusive(temp_max_values) ==
    CountAbove(ValidValues(temp_max_values), 319)

days_above_32_of(temp_max_values) == CountAbove(ValidValues(temp_max_values), 320)

\* statistics.mean(valid) if valid else default, as <<sum, count>>
mean_or(values, default) ==
    LET valid == ValidValues(values)
    IN  IF valid = <<>> THEN <<default, 1>> ELSE <<SumSeq(valid), Len(valid)>>

heat_status_of(days_above_32) ==
    IF days_above_32 >= 7 THEN "Critical Heat" ELSE "Normal"

\* variant: a window without any humidity reading counts as dry
harmattan_status_of_dry_default(wind_values, humidity_values) ==
    LET valid_wind == ValidValues(wind_values)
        valid_humidity == ValidValues(humidity_values)
        windy == IF valid_wind = <<>> THEN 0 > 460
                 ELSE SumSeq(valid_wind) > 460 * Len(valid_wind)
        dry == IF valid_humidity = <<>> THEN 0 < 400
               ELSE SumSeq(valid_humidity) < 400 * Len(valid_humidity)
    IN  IF windy /\ dry THEN "Harmattan Active" ELSE "Normal"

\* avg_wind_speed > 46 and avg_humidity < 40; an empty list averages to
\* 0 (wind) or 100 (humidity)
harmattan_status_of(wind_values, humidity_values) ==
    LET valid_wind == ValidValues(wind_values)
        valid_humidity == ValidValues(humidity_values)
        windy == IF valid_wind = <<>> THEN 0 > 460
                 ELSE SumSeq(valid_wind) > 460 * Len(valid_wind)
        dry == IF valid_humidity = <<>> THEN 1000 < 400
               ELSE SumSeq(valid_humidity) < 400 * Len(valid_humidity)
    IN  IF windy /\ dry THEN "Harmattan Active" ELSE "Normal"

yearly_rainfall(feed) ==
    [y \in 1..Len(feed.precipitation) |->
        calculate_total_rainfall(feed.precipitation[y])]

RegionData(name, feed) ==
    LET rainfall_values == yearly_rainfall(feed)
        current_rainfall == rainfall_values[Len(rainfall_values)]
        days == days_above_32_of(feed.temperature_2m_max)
    IN  [name |-> name,
         drought_status |-> drought_status_of(rainfall_values, current_rainfall),
         heat_status |-> heat_status_of(days),
         harmattan_status |-> harmattan_status_of(feed.wind_speed_10m_max,
                                                  feed.relative_humidity_2m_mean),
         current_rainfall |-> current_rainfall,
         days_above_32 |-> days]

EmptyResults ==
    [regions |-> <<>>, severe_drought_regions |-> <<>>,
     dual_region_drought_detected |-> FALSE]

\* ------------------------------------------------------------- ONI parsing
\* The text is held as its lines, a line as line.split() gives it, a token
\* as its characters.
Digits == {"0", "1", "2", "3", "4", "5", "6", "7", "8", "9"}
DigitValue ==
    ("0" :> 0) @@ ("1" :> 1) @@ ("2" :> 2) @@ ("3" :> 3) @@ ("4" :> 4) @@
    ("5" :> 5) @@ ("6" :> 6) @@ ("7" :> 7) @@ ("8" :> 8) @@ ("9" :> 9)

\* str.isdigit() over ASCII
isdigit(token) == token # <<>> /\ \A i \in DOMAIN token : token[i] \in Digits

RECURSIVE int_of(_)
int_of(token) ==
    IF token = <<>> THEN 0
    ELSE 10 * int_of(SubSeq(token, 1, Len(token) - 1)) + DigitValue[token[Len(token)]]

\* the first two decimals, padded with zeros
Hundredths(frac) ==
    (IF Len(frac) >= 1 THEN 10 * DigitValue[frac[1]] ELSE 0)
    + (IF Len(frac) >= 2 THEN DigitValue[frac[2]] ELSE 0)

\* the spellings of "nan" that occur among the tokens read
NanSpellings == { <<"n", "a", "n">>, <<"N", "a", "N">> }

\* float(): Some(value in hundredths), NaN for a token spelling "nan", or
\* None for ValueError. The tokens read are plain decimals of at most two
\* decimals, "nan" or words; exponents and "inf" do not occur among them.
float_of(token) ==
    LET signed == token # <<>> /\ token[1] \in {"-", "+"}
        body == IF signed THEN Tail(token) ELSE token
        dots == { i \in DOMAIN body : body[i] = "." }
        wellformed ==
            /\ \A i \in DOMAIN body : body[i] \in Digits \cup {"."}
            /\ \E i \in DOMAIN body : body[i] \in Digits
            /\ Cardinality(dots) <= 1
        dot == IF dots = {} THEN Len(body) + 1 ELSE CHOOSE i \in dots : TRUE
        magnitude == 100 * int_of(SubSeq(body, 1, dot - 1))
                     + Hundredths(SubSeq(body, dot + 1, Len(body)))
    IN  IF body \in NanSpellings THEN NaN
        ELSE IF ~wellformed THEN None
        ELSE Some(IF signed /\ token[1] = "-" THEN 0 - magnitude ELSE magnitude)

MissingBelow == -9000

month_names ==
    <<"Jan", "Feb", "Mar", "Apr", "May", "Jun", "Jul", "Aug", "Sep", "Oct", "Nov", "Dec">>

NoReading == [value |-> None, year |-> None, month |-> None]

\* the inner loop over parts[1:13], from the value column at position k on;
\* latest.month is the month index. NaN < -90 is false, so a NaN is kept.
RECURSIVE scan_columns(_, _, _, _)
scan_columns(parts, k, last, latest) ==
    IF k > last THEN latest
    ELSE LET value == float_of(parts[k])
         IN  IF value = None \/ (value # NaN /\ value[1] < MissingBelow)
             THEN scan_columns(parts, k + 1, last, latest)
             ELSE scan_columns(parts, k + 1, last,
                      [value |-> value, year |-> Some(int_of(parts[1])),
                       month |-> Some(k - 2)])

\* variant: the two-token year-range row is read as data
parse_row_with_header(parts, latest) ==
    IF parts = <<>> \/ ~isdigit(parts[1]) THEN latest
    ELSE scan_columns(parts, 2, IF Len(parts) < 13 THEN Len(parts) ELSE 13, latest)

\* one iteration of the loop over the lines
parse_row(parts, latest) ==
    IF parts = <<>> \/ ~isdigit(parts[1]) THEN latest
    ELSE IF Len(parts) = 2 THEN latest
    ELSE scan_columns(parts, 2, IF Len(parts) < 13 THEN Len(parts) ELSE 13, latest)

RECURSIVE parse_lines(_, _, _)
parse_lines(lines, i, latest) ==
    IF i > Len(lines) THEN latest
    ELSE parse_lines(lines, i + 1, parse_row(lines[i], latest))

parse_oni_data(lines) ==
    LET latest == parse_lines(lines, 1, NoReading)
    IN  [value |-> latest.value,
         year |-> latest.year,
         month |-> IF latest.month # None THEN Some(month_names[latest.month[1] + 1])
                   ELSE None]

\* variant: the thresholds are inclusive
interpret_oni_inclusive(value) ==
    IF value >= 120 THEN "BULLISH"
    ELSE IF value <= -100 THEN "BEARISH"
    ELSE "NEUTRAL"

\* ---------------------------------------------------------- climate index
\* what parse_oni_data may hand back: no reading, or the latest value
OniReadings == { None, Some(130), Some(0), Some(-110) }

interpret_oni(value) ==
    IF value > 120 THEN "BULLISH"
    ELSE IF value < -100 THEN "BEARISH"
    ELSE "NEUTRAL"

get_enso_signal_of(oni_value) ==
    IF oni_value # None
    THEN [value |-> oni_value, signal |-> interpret_oni(oni_value[1])]
    ELSE [value |-> None, signal |-> "UNKNOWN"]

\* get_enso_signal on the text fetched, with the month and the year; both
\* comparisons of interpret_oni are false for NaN, which leaves NEUTRAL
get_enso_signal(data_text) ==
    LET parsed == parse_oni_data(data_text)
    IN  IF parsed.value # None
        THEN [value |-> parsed.value,
              signal |-> IF parsed.value = NaN THEN "NEUTRAL"
                         ELSE interpret_oni(parsed.value[1]),
              month |-> parsed.month, year |-> parsed.year]
        ELSE [value |-> None, signal |-> "UNKNOWN", month |-> None, year |-> None]

\* ---------------------------------------------------------- news sentiment
BULLISH_KEYWORDS ==
    <<
        <<"s", "h", "o", "r", "t", "a", "g", "e">>,
        <<"d", "e", "f", "i", "c", "i", "t">>,
        <<"d", "r", "o", "u", "g", "h", "t">>,
        <<"s", "o", "a", "r", "i", "n", "g">>,
        <<"r", "e", "c", "o", "r", "d", " ", "h", "i", "g", "h">>,
        <<"c", "r", "i", "s", "i", "s">>,
        <<"s", "u", "p", "p", "l", "y", " ", "c", "r", "u", "n", "c", "h">>,
        <<"s", "u", "r", "g", "e">>,
        <<"r", "a", "l", "l", "y">>,
        <<"s", "p", "i", "k", "e">>,
        <<"s", "c", "a", "r", "c", "e">>,
        <<"t", "i", "g", "h", "t", " ", "s", "u", "p", "p", "l", "y">>,
        <<"p", "r", "o", "d", "u", "c", "t", "i", "o", "n", " ", "f", "a", "l", "l">>,
        <<"c", "r", "o", "p", " ", "d", "a", "m", "a", "g", "e">>,
        <<"d", "i", "s", "e", "a", "s", "e">>,
        <<"p", "e", "s", "t">>,
        <<"e", "l", " ", "n", "i", "n", "o">>,
        <<"w", "e", "a", "t", "h", "e", "r", " ", "c", "o", "n", "c", "e", "r", "n">>,
        <<"s", "u", "p", "p", "l", "y", " ", "r", "i", "s", "k">>,
        <<"a", "l", "l", "-", "t", "i", "m", "e", " ", "h", "i", "g", "h">>
    >>

BEARISH_KEYWORDS ==
    <<
        <<"s", "u", "r", "p", "l", "u", "s">>,
        <<"o", "v", "e", "r", "s", "u", "p", "p", "l", "y">>,
        <<"r", "e", "c", "o", "r", "d", " ", "h", "a", "r", "v", "e", "s", "t">>,
        <<"d", "r", "o", "p">>,
        <<"f", "a", "l", "l", "i", "n", "g">>,
        <<"r", "a", "i", "n">>,
        <<"r", "e", "c", "o", "v", "e", "r", "y">>,
        <<"b", "u", "m", "p", "e", "r", " ", "c", "r", "o", "p">>,
        <<"a", "b", "u", "n", "d", "a", "n", "t">>,
        <<"p", "l", "u", "n", "g", "e">>,
        <<"d", "e", "c", "l", "i", "n", "e">>,
        <<"s", "l", "u", "m", "p">>,
        <<"p", "r", "o", "d", "u", "c", "t", "i", "o", "n", " ", "r", "i", "s", "e">>,
        <<"g", "o", "o", "d", " ", "w", "e", "a", "t", "h", "e", "r">>,
        <<"f", "a", "v", "o", "r", "a", "b", "l", "e">>,
        <<"o", "u", "t", "p", "u", "t", " ", "i", "n", "c", "r", "e", "a", "s", "e">>,
        <<"s", "t", "o", "c", "k", "p", "i", "l", "e">>,
        <<"g", "l", "u", "t">>,
        <<"e", "x", "c", "e", "s", "s">>
    >>

UpperCase ==
    <<"A", "B", "C", "D", "E", "F", "G", "H", "I", "J", "K", "L", "M",
      "N", "O", "P", "Q", "R", "S", "T", "U", "V", "W", "X", "Y", "Z">>
LowerCase ==
    <<"a", "b", "c", "d", "e", "f", "g", "h", "i", "j", "k", "l", "m",
      "n", "o", "p", "q", "r", "s", "t", "u", "v", "w", "x", "y", "z">>

\* str.lower() over ASCII
lower(title) ==
    [i \in DOMAIN title |->
        IF \E k \in DOMAIN UpperCase : UpperCase[k] = title[i]
        THEN LowerCase[CHOOSE k \in DOMAIN UpperCase : UpperCase[k] = title[i]]
        ELSE title[i]]

\* kw in title_lower
Contains(text, kw) ==
    \E i \in 1..(Len(text) - Len(kw) + 1) : SubSeq(text, i, i + Len(kw) - 1) = kw

\* [kw for kw in keywords if kw in text]
RECURSIVE Matches(_, _)
Matches(keywords, text) ==
    IF keywords = <<>> THEN <<>>
    ELSE (IF Contains(text, Head(keywords)) THEN <<Head(keywords)>> ELSE <<>>)
         \o Matches(Tail(keywords), text)

\* variant: the title is matched as it is written
analyze_headline_case_sensitive(title) ==
    [bullish_matches |-> Matches(BULLISH_KEYWORDS, title),
     bearish_matches |-> Matches(BEARISH_KEYWORDS, title)]

analyze_headline(title) ==
    LET title_lower == lower(title)
    IN  [bullish_matches |-> Matches(BULLISH_KEYWORDS, title_lower),
         bearish_matches |-> Matches(BEARISH_KEYWORDS, title_lower)]

FeedLimit == 10

\* feed.entries[:10]
fetch_news_feed(entries) ==
    SubSeq(entries, 1, IF Len(entries) < FeedLimit THEN Len(entries) ELSE FeedLimit)

\* the loop over the entries, from entry i on
RECURSIVE count_matches(_, _, _)
count_matches(entries, i, totals) ==
    IF i > Len(entries) THEN totals
    ELSE LET matches == analyze_headline(entries[i])
         IN  count_matches(entries, i + 1,
                 [total_bullish |-> totals.total_bullish + Len(matches.bullish_matches),
                  total_bearish |-> totals.total_bearish + Len(matches.bearish_matches)])

get_news_sentiment_of(feed) ==
    LET entries == fetch_news_feed(feed)
        totals == count_matches(entries, 1, [total_bullish |-> 0, total_bearish |-> 0])
        total_bullish == totals.total_bullish
        total_bearish == totals.total_bearish
    IN  [bullish_count |-> total_bullish,
         bearish_count |-> total_bearish,
         sentiment |-> IF total_bullish > total_bearish THEN "BULLISH"
                       ELSE IF total_bearish > total_bullish THEN "BEARISH"
                       ELSE "NEUTRAL",
         status |-> IF total_bullish > total_bearish THEN "CRITICAL DEFICIT"
                    ELSE IF total_bearish > total_bullish THEN "SURPLUS"
                    ELSE "NEUTRAL"]

\* ------------------------------------------------------- fundamentals.json
\* The file is held as the dict json.load gives and json.dump writes: each
\* key is absent (None) or present with its value. last_updated stands for
\* any key other than the two the programs use.
ConfigFile(stocks_ratio, status, updated) ==
    [global_stocks_to_usage_ratio |-> stocks_ratio,
     news_sentiment_status |-> status,
     last_updated |-> updated]

\* data = {} after FileNotFoundError
EmptyConfig == ConfigFile(None, None, None)

\* variant: the file is rewritten with the status alone
update_fundamentals_replacing(file, status) ==
    Some([EmptyConfig EXCEPT !.news_sentiment_status = Some(status)])

\* the file after update_fundamentals(status)
update_fundamentals(file, status) ==
    LET data == IF file = None THEN EmptyConfig ELSE file[1]
    IN  Some([data EXCEPT !.news_sentiment_status = Some(status)])

\* ------------------------------------------------------------ fundamentals
StocksRatios == { 2999, 3000, 3499, 3500 }

\* variant: the band boundaries are inclusive
calculate_position_multiplier_inclusive(stocks_ratio) ==
    IF stocks_ratio <= 3000 THEN <<25, "CRITICAL DEFICIT">>
    ELSE IF stocks_ratio <= 3500 THEN <<20, "LOW STOCKS">>
    ELSE <<10, "STOCKS HEALTHY">>

calculate_position_multiplier(stocks_ratio) ==
    IF stocks_ratio < 3000 THEN <<25, "CRITICAL DEFICIT">>
    ELSE IF stocks_ratio < 3500 THEN <<20, "LOW STOCKS">>
    ELSE <<10, "STOCKS HEALTHY">>

get_fundamentals_analysis_of(stocks_ratio) ==
    LET pm == calculate_position_multiplier(stocks_ratio)
    IN  [stocks_ratio |-> stocks_ratio,
         multiplier |-> pm[1],
         status |-> IF pm[1] = 25 THEN "CRITICAL_DEFICIT"
                    ELSE IF pm[1] = 20 THEN "LOW_STOCKS"
                    ELSE "HEALTHY",
         status_display |-> pm[2]]

\* ------------------------------------------------------------------ fusion
Signal(type, region, name) == [type |-> type, region |-> region, name |-> name]

\* sum(1 for s in signals if s[0] in types)
RECURSIVE CountSignals(_, _)
CountSignals(signals, types) ==
    IF signals = <<>> THEN 0
    ELSE (IF Head(signals).type \in types THEN 1 ELSE 0)
         + CountSignals(Tail(signals), types)

\* variant: the three conditions of a region chained with elif
RECURSIVE appetite_region_signals_elif(_)
appetite_region_signals_elif(regions) ==
    IF regions = <<>> THEN <<>>
    ELSE LET data == Head(regions)
         IN  (IF data.drought_status = "Severe Drought"
              THEN <<Signal("BULLISH", data.name, "Drought")>>
              ELSE IF data.heat_status = "Critical Heat"
              THEN <<Signal("BULLISH", data.name, "Heat Stress")>>
              ELSE IF data.harmattan_status = "Harmattan Active"
              THEN <<Signal("BULLISH", data.name, "Harmattan")>>
              ELSE <<>>)
             \o appetite_region_signals_elif(Tail(regions))

\* variant: the loop breaks after the first region that raised an alert
RECURSIVE appetite_region_signals_break(_)
appetite_region_signals_break(regions) ==
    IF regions = <<>> THEN <<>>
    ELSE LET data == Head(regions)
             own == (IF data.drought_status = "Severe Drought"
                     THEN <<Signal("BULLISH", data.name, "Drought")>> ELSE <<>>)
                    \o (IF data.heat_status = "Critical Heat"
                        THEN <<Signal("BULLISH", data.name, "Heat Stress")>> ELSE <<>>)
                    \o (IF data.harmattan_status = "Harmattan Active"
                        THEN <<Signal("BULLISH", data.name, "Harmattan")>> ELSE <<>>)
         IN  IF own # <<>> THEN own
             ELSE appetite_region_signals_break(Tail(regions))

\* main.py: the loop over weather["regions"].items()
RECURSIVE appetite_region_signals(_)
appetite_region_signals(regions) ==
    IF regions = <<>> THEN <<>>
    ELSE LET data == Head(regions)
         IN  (IF data.drought_status = "Severe Drought"
              THEN <<Signal("BULLISH", data.name, "Drought")>> ELSE <<>>)
             \o (IF data.heat_status = "Critical Heat"
                 THEN <<Signal("BULLISH", data.name, "Heat Stress")>> ELSE <<>>)
             \o (IF data.harmattan_status = "Harmattan Active"
                 THEN <<Signal("BULLISH", data.name, "Harmattan")>> ELSE <<>>)
             \o appetite_region_signals(Tail(regions))

\* variant: the bearish branch is tested before the single-bullish branch
calculate_risk_appetite_bearish_first(weather, enso_rec, fundamentals_analysis) ==
    LET signals ==
            (IF weather.dual_region_drought_detected
             THEN <<Signal("EXTREME_BULLISH", "", "Dual-Region Drought")>>
             ELSE <<>>)
            \o appetite_region_signals(weather.regions)
            \o (IF enso_rec.signal = "BULLISH"
                THEN <<Signal("BULLISH", "", "El Nino Active")>>
                ELSE IF enso_rec.signal = "BEARISH"
                THEN <<Signal("BEARISH", "", "La Nina Active")>>
                ELSE <<>>)
        bullish_count == CountSignals(signals, {"BULLISH", "EXTREME_BULLISH"})
        extreme_count == CountSignals(signals, {"EXTREME_BULLISH"})
        bearish_count == CountSignals(signals, {"BEARISH"})
    IN  [verdict |-> IF extreme_count > 0 THEN "MAXIMUM CONVICTION"
                     ELSE IF bullish_count >= 2 THEN "HIGH CONVICTION"
                     ELSE IF bearish_count > 0 THEN "CAUTIOUS"
                     ELSE IF bullish_count = 1 THEN "MODERATE BULLISH"
                     ELSE "NEUTRAL",
         multiplier |-> fundamentals_analysis.multiplier,
         signals |-> signals]

\* variant: the multiplier is raised to 2.5 on a dual-region drought
calculate_risk_appetite_sized(weather, enso_rec, fundamentals_analysis) ==
    LET signals ==
            (IF weather.dual_region_drought_detected
             THEN <<Signal("EXTREME_BULLISH", "", "Dual-Region Drought")>>
             ELSE <<>>)
            \o appetite_region_signals(weather.regions)
            \o (IF enso_rec.signal = "BULLISH"
                THEN <<Signal("BULLISH", "", "El Nino Active")>>
                ELSE IF enso_rec.signal = "BEARISH"
                THEN <<Signal("BEARISH", "", "La Nina Active")>>
                ELSE <<>>)
        bullish_count == CountSignals(signals, {"BULLISH", "EXTREME_BULLISH"})
        extreme_count == CountSignals(signals, {"EXTREME_BULLISH"})
        bearish_count == CountSignals(signals, {"BEARISH"})
    IN  [verdict |-> IF extreme_count > 0 THEN "MAXIMUM CONVICTION"
                     ELSE IF bullish_count >= 2 THEN "HIGH CONVICTION"
                     ELSE IF bullish_count = 1 THEN "MODERATE BULLISH"
                     ELSE IF bearish_count > 0 THEN "CAUTIOUS"
                     ELSE "NEUTRAL",
         multiplier |-> IF extreme_count > 0 THEN 25
                        ELSE fundamentals_analysis.multiplier,
         signals |-> signals]

\* variant: the second tier needs exactly two bullish signals
calculate_risk_appetite_exactly_two(weather, enso_rec, fundamentals_analysis) ==
    LET signals ==
            (IF weather.dual_region_drought_detected
             THEN <<Signal("EXTREME_BULLISH", "", "Dual-Region Drought")>>
             ELSE <<>>)
            \o appetite_region_signals(weather.regions)
            \o (IF enso_rec.signal = "BULLISH"
                THEN <<Signal("BULLISH", "", "El Nino Active")>>
                ELSE IF enso_rec.signal = "BEARISH"
                THEN <<Signal("BEARISH", "", "La Nina Active")>>
                ELSE <<>>)
        bullish_count == CountSignals(signals, {"BULLISH", "EXTREME_BULLISH"})
        extreme_count == CountSignals(signals, {"EXTREME_BULLISH"})
        bearish_count == CountSignals(signals, {"BEARISH"})
    IN  [verdict |-> IF extreme_count > 0 THEN "MAXIMUM CONVICTION"
                     ELSE IF bullish_count = 2 THEN "HIGH CONVICTION"
                     ELSE IF bullish_count = 1 THEN "MODERATE BULLISH"
                     ELSE IF bearish_count > 0 THEN "CAUTIOUS"
                     ELSE "NEUTRAL",
         multiplier |-> fundamentals_analysis.multiplier,
         signals |-> signals]

calculate_risk_appetite(weather, enso_rec, fundamentals_analysis) ==
    LET signals ==
            (IF weather.dual_region_drought_detected
             THEN <<Signal("EXTREME_BULLISH", "", "Dual-Region Drought")>>
             ELSE <<>>)
            \o appetite_region_signals(weather.regions)
            \o (IF enso_rec.signal = "BULLISH"
                THEN <<Signal("BULLISH", "", "El Nino Active")>>
                ELSE IF enso_rec.signal = "BEARISH"
                THEN <<Signal("BEARISH", "", "La Nina Active")>>
                ELSE <<>>)
        bullish_count == CountSignals(signals, {"BULLISH", "EXTREME_BULLISH"})
        extreme_count == CountSignals(signals, {"EXTREME_BULLISH"})
        bearish_count == CountSignals(signals, {"BEARISH"})
    IN  [verdict |-> IF extreme_count > 0 THEN "MAXIMUM CONVICTION"
                     ELSE IF bullish_count >= 2 THEN "HIGH CONVICTION"
                     ELSE IF bullish_count = 1 THEN "MODERATE BULLISH"
                     ELSE IF bearish_count > 0 THEN "CAUTIOUS"
                     ELSE "NEUTRAL",
         multiplier |-> fundamentals_analysis.multiplier,
         signals |-> signals]

\* generate_dashboard.py: the loop over weather["regions"].items()
RECURSIVE verdict_region_signals(_)
verdict_region_signals(regions) ==
    IF regions = <<>> THEN <<>>
    ELSE LET data == Head(regions)
         IN  (IF data.drought_status = "Severe Drought"
              THEN <<Signal("BULLISH", data.name, "Drought")>> ELSE <<>>)
             \o (IF data.heat_status = "Critical Heat"
                 THEN <<Signal("BULLISH", data.name, "Heat Stress")>> ELSE <<>>)
             \o (IF data.harmattan_status = "Harmattan Active"
                 THEN <<Signal("BULLISH", data.name, "Harmattan")>> ELSE <<>>)
             \o verdict_region_signals(Tail(regions))

calculate_verdict(weather, enso_rec, fundamentals_analysis) ==
    LET signals ==
            (IF weather.dual_region_drought_detected
             THEN <<Signal("EXTREME_BULLISH", "", "Dual-Region Drought")>>
             ELSE <<>>)
            \o verdict_region_signals(weather.regions)
            \o (IF enso_rec.signal = "BULLISH"
                THEN <<Signal("BULLISH", "", "El Nino Active")>>
                ELSE IF enso_rec.signal = "BEARISH"
                THEN <<Signal("BEARISH", "", "La Nina Active")>>
                ELSE <<>>)
        bullish_count == CountSignals(signals, {"BULLISH", "EXTREME_BULLISH"})
        extreme_count == CountSignals(signals, {"EXTREME_BULLISH"})
    IN  [verdict |-> IF extreme_count > 0 THEN "MAXIMUM CONVICTION LONG"
                     ELSE IF bullish_count >= 2 THEN "HIGH CONVICTION LONG"
                     ELSE IF bullish_count = 1 THEN "MODERATE BULLISH"
                     ELSE "NEUTRAL - NO POSITION",
         multiplier |-> fundamentals_analysis.multiplier,
         signals |-> signals]

\* ------------------------------------------------------- technical engine
\* A float that may be NaN is a fraction <<numerator, denominator>> with a
\* denominator >= 0; <<0, 0>> is NaN, and every comparison with NaN is false.
IsNaN(x) == x[2] = 0
Above(x, k) == x[2] > 0 /\ x[1] > k * x[2]
Below(x, k) == x[2] > 0 /\ x[1] < k * x[2]

RsiPeriod == 14
SmaPeriod == 50
MinBars == 50

\* prices.diff(): the first delta is NaN, which neither where() keeps
DeltaAt(prices, i) == IF i = 1 THEN 0 ELSE prices[i] - prices[i - 1]
GainAt(prices, i) == IF DeltaAt(prices, i) > 0 THEN DeltaAt(prices, i) ELSE 0
LossAt(prices, i) == IF DeltaAt(prices, i) < 0 THEN 0 - DeltaAt(prices, i) ELSE 0

\* series.rolling(window=period, min_periods=period).sum().iloc[-1]
RollingSum(series, period) ==
    SumSeq(SubSeq(series, Len(series) - period + 1, Len(series)))

\* 100 - 100 / (1 + avg_gain / avg_loss) = 100 * gain / (gain + loss), the
\* two rolling means sharing the divisor; gain > 0 over loss = 0 is inf and
\* gives 100, 0 over 0 is NaN, fewer than `period` rows is NaN
calculate_rsi(prices, period) ==
    IF Len(prices) < period THEN NaN
    ELSE LET gains == [i \in 1..Len(prices) |-> GainAt(prices, i)]
             losses == [i \in 1..Len(prices) |-> LossAt(prices, i)]
             gain == RollingSum(gains, period)
             loss == RollingSum(losses, period)
         IN  <<100 * gain, gain + loss>>

calculate_sma(prices, period) ==
    IF Len(prices) < period THEN NaN
    ELSE <<RollingSum(prices, period), period>>

\* variant: a price equal to the average counts as an uptrend
trend_of_inclusive(current_price, sma_50) ==
    IF sma_50[2] > 0 /\ current_price * sma_50[2] >= sma_50[1]
    THEN "Uptrend" ELSE "Downtrend"

trend_of(current_price, sma_50) ==
    IF sma_50[2] > 0 /\ current_price * sma_50[2] > sma_50[1]
    THEN "Uptrend" ELSE "Downtrend"

\* variant: the two RSI thresholds are inclusive
rsi_status_of_inclusive(rsi_14) ==
    IF ~Below(rsi_14, 70) /\ ~IsNaN(rsi_14) THEN "Overbought"
    ELSE IF ~Above(rsi_14, 30) /\ ~IsNaN(rsi_14) THEN "Oversold"
    ELSE "Neutral"

rsi_status_of(rsi_14) ==
    IF Above(rsi_14, 70) THEN "Overbought"
    ELSE IF Below(rsi_14, 30) THEN "Oversold"
    ELSE "Neutral"

\* variant: an oversold downtrend is sold
signal_of_sell_oversold(trend, rsi_status) ==
    IF trend = "Uptrend" /\ rsi_status = "Oversold" THEN "BUY"
    ELSE IF trend = "Uptrend" /\ rsi_status = "Neutral" THEN "BUY"
    ELSE IF trend = "Uptrend" /\ rsi_status = "Overbought" THEN "WAIT"
    ELSE IF trend = "Downtrend" /\ rsi_status = "Oversold" THEN "SELL"
    ELSE IF trend = "Downtrend" /\ rsi_status = "Overbought" THEN "SELL"
    ELSE "WAIT"

signal_of(trend, rsi_status) ==
    IF trend = "Uptrend" /\ rsi_status = "Oversold" THEN "BUY"
    ELSE IF trend = "Uptrend" /\ rsi_status = "Neutral" THEN "BUY"
    ELSE IF trend = "Uptrend" /\ rsi_status = "Overbought" THEN "WAIT"
    ELSE IF trend = "Downtrend" /\ rsi_status = "Oversold" THEN "WAIT"
    ELSE IF trend = "Downtrend" /\ rsi_status = "Overbought" THEN "SELL"
    ELSE "WAIT"

InsufficientData ==
    [price |-> None, rsi |-> None, sma |-> None, signal |-> "UNKNOWN",
     trend |-> "Unknown", rsi_status |-> "Unknown",
     explanation |-> "Insufficient data for analysis"]

\* the record built once the history is long enough
analysis_of(closes) ==
    LET current_price == closes[Len(closes)]
        sma_50 == calculate_sma(closes, SmaPeriod)
        rsi_14 == calculate_rsi(closes, RsiPeriod)
        trend == trend_of(current_price, sma_50)
        rsi_status == rsi_status_of(rsi_14)
    IN  [price |-> Some(current_price),
         rsi |-> Some(rsi_14),
         sma |-> Some(sma_50),
         signal |-> signal_of(trend, rsi_status),
         trend |-> trend,
         rsi_status |-> rsi_status,
         explanation |-> "trend | rsi | signal"]

\* variant: exactly 50 bars still count as too few
get_technical_analysis_of_strict(closes) ==
    IF closes = <<>> \/ Len(closes) <= MinBars THEN InsufficientData
    ELSE analysis_of(closes)

\* closes is hist["Close"], oldest bar first
get_technical_analysis_of(closes) ==
    IF closes = <<>> \/ Len(closes) < MinBars THEN InsufficientData
    ELSE analysis_of(closes)

\* n bars: `early` up to 20 bars before the end, then 100, then the last
\* bars move by the deltas of `tail`
PriceSeries(n, early, tail) ==
    [i \in 1..n |->
        IF i <= n - 20 THEN early
        ELSE IF i <= n - Len(tail) THEN 100
        ELSE 100 + SumSeq(SubSeq(tail, 1, i - (n - Len(tail))))]

BarCounts == {0, MinBars - 1, MinBars, MinBars + 1}
EarlyLevels == {80, 100, 120}
TailDeltas == {-7, -3, 0, 3, 7}
PriceFeeds ==
    { PriceSeries(n, early, tail) :
        n \in BarCounts, early \in EarlyLevels, tail \in [1..TailLen -> TailDeltas] }

\* the two feeds a run of generate_html is given here: too short, and long enough
PipelinePriceFeeds ==
    { PriceSeries(MinBars - 1, 100, <<0, 3, 7>>), PriceSeries(MinBars + 1, 80, <<3, -3, 7>>) }

\* --------------------------------------------------------------- narrative
\* [region for region, data in regions.items() if data[field] == value]
RECURSIVE RegionsWith(_, _, _)
RegionsWith(regions, field, value) ==
    IF regions = <<>> THEN <<>>
    ELSE (IF Head(regions)[field] = value THEN <<Head(regions).name>> ELSE <<>>)
         \o RegionsWith(Tail(regions), field, value)

RECURSIVE StressedRegions(_)
StressedRegions(regions) ==
    IF regions = <<>> THEN <<>>
    ELSE LET data == Head(regions)
             is_stressed == \/ data.drought_status = "Severe Drought"
                            \/ data.heat_status = "Critical Heat"
                            \/ data.harmattan_status = "Harmattan Active"
         IN  (IF is_stressed THEN <<data.name>> ELSE <<>>)
             \o StressedRegions(Tail(regions))

\* variant: only regions in drought count towards the dual-region stress
analyze_weather_triggers_drought_only(weather_data) ==
    LET stressed == StressedRegions(weather_data.regions)
        drought == RegionsWith(weather_data.regions, "drought_status", "Severe Drought")
    IN  [drought_regions |-> drought,
         heat_regions |->
             RegionsWith(weather_data.regions, "heat_status", "Critical Heat"),
         harmattan_regions |->
             RegionsWith(weather_data.regions, "harmattan_status", "Harmattan Active"),
         dual_region_stress |-> Len(drought) >= 2,
         stressed_regions |-> stressed]

\* variant: the dual-region stress needs more than two stressed regions
analyze_weather_triggers_above_two(weather_data) ==
    LET stressed == StressedRegions(weather_data.regions)
    IN  [drought_regions |->
             RegionsWith(weather_data.regions, "drought_status", "Severe Drought"),
         heat_regions |->
             RegionsWith(weather_data.regions, "heat_status", "Critical Heat"),
         harmattan_regions |->
             RegionsWith(weather_data.regions, "harmattan_status", "Harmattan Active"),
         dual_region_stress |-> Len(stressed) > 2,
         stressed_regions |-> stressed]

analyze_weather_triggers(weather_data) ==
    LET stressed == StressedRegions(weather_data.regions)
    IN  [drought_regions |->
             RegionsWith(weather_data.regions, "drought_status", "Severe Drought"),
         heat_regions |->
             RegionsWith(weather_data.regions, "heat_status", "Critical Heat"),
         harmattan_regions |->
             RegionsWith(weather_data.regions, "harmattan_status", "Harmattan Active"),
         dual_region_stress |-> Len(stressed) >= 2,
         stressed_regions |-> stressed]

TriggerEstimate(trigger, duration, exit_condition) ==
    [trigger |-> trigger, duration |-> duration, exit_condition |-> exit_condition]

duration_order == <<"6-8 months", "8-10 months", "4-6 weeks", "3-4 weeks">>

\* list.index: the first position of x
IndexOf(seq, x) == CHOOSE i \in 1..Len(seq) : seq[i] = x /\ \A j \in 1..(i - 1) : seq[j] # x

\* variant: the comparison of the two ranks is reversed
RECURSIVE PrimaryLoop_reversed(_, _)
PrimaryLoop_reversed(primary, rest) ==
    IF rest = <<>> THEN primary
    ELSE PrimaryLoop_reversed(
            IF IndexOf(duration_order, Head(rest).duration)
                 > IndexOf(duration_order, primary.duration)
            THEN Head(rest) ELSE primary,
            Tail(rest))

\* for ht in holding_times: if index(ht) < index(primary): primary = ht
RECURSIVE PrimaryLoop(_, _)
PrimaryLoop(primary, rest) ==
    IF rest = <<>> THEN primary
    ELSE PrimaryLoop(
            IF IndexOf(duration_order, Head(rest).duration)
                 < IndexOf(duration_order, primary.duration)
            THEN Head(rest) ELSE primary,
            Tail(rest))

\* variant: one drought estimate per region in drought
holding_times_per_region(triggers, enso_signal) ==
    [i \in DOMAIN triggers.drought_regions |->
        [trigger |-> "Drought", duration |-> "3-4 weeks",
         exit_condition |-> "Exit when rains return or Z-Score (SPI) rises above -1.0"]]
    \o (IF triggers.heat_regions # <<>>
        THEN <<[trigger |-> "Heat Stress", duration |-> "8-10 months",
                exit_condition |-> "Exit before main crop harvest in October-December"]>>
        ELSE <<>>)
    \o (IF triggers.harmattan_regions # <<>>
        THEN <<[trigger |-> "Harmattan Winds", duration |-> "4-6 weeks",
                exit_condition |-> "Exit when humidity rises above 50% and winds calm"]>>
        ELSE <<>>)
    \o (IF enso_signal = "BULLISH"
        THEN <<[trigger |-> "El Nino", duration |-> "6-8 months",
                exit_condition |->
                    "Exit when ONI drops below +0.5 or full crop cycle completes"]>>
        ELSE <<>>)

\* variant: the climate estimate is put in front of the weather estimates
holding_times_climate_first(triggers, enso_signal) ==
    (IF enso_signal = "BULLISH"
     THEN <<TriggerEstimate("El Nino", "6-8 months",
                "Exit when ONI drops below +0.5 or full crop cycle completes")>>
     ELSE <<>>)
    \o (IF triggers.drought_regions # <<>>
        THEN <<TriggerEstimate("Drought", "3-4 weeks",
                   "Exit when rains return or Z-Score (SPI) rises above -1.0")>>
        ELSE <<>>)
    \o (IF triggers.heat_regions # <<>>
        THEN <<TriggerEstimate("Heat Stress", "8-10 months",
                   "Exit before main crop harvest in October-December")>>
        ELSE <<>>)
    \o (IF triggers.harmattan_regions # <<>>
        THEN <<TriggerEstimate("Harmattan Winds", "4-6 weeks",
                   "Exit when humidity rises above 50% and winds calm")>>
        ELSE <<>>)

\* the holding_times list; enso_signal is "None" when no climate record was passed
holding_times_of(triggers, enso_signal) ==
    (IF triggers.drought_regions # <<>>
     THEN <<TriggerEstimate("Drought", "3-4 weeks",
                "Exit when rains return or Z-Score (SPI) rises above -1.0")>>
     ELSE <<>>)
    \o (IF triggers.heat_regions # <<>>
        THEN <<TriggerEstimate("Heat Stress", "8-10 months",
                   "Exit before main crop harvest in October-December")>>
        ELSE <<>>)
    \o (IF triggers.harmattan_regions # <<>>
        THEN <<TriggerEstimate("Harmattan Winds", "4-6 weeks",
                   "Exit when humidity rises above 50% and winds calm")>>
        ELSE <<>>)
    \o (IF enso_signal = "BULLISH"
        THEN <<TriggerEstimate("El Nino", "6-8 months",
                   "Exit when ONI drops below +0.5 or full crop cycle completes")>>
        ELSE <<>>)

calculate_holding_time(triggers, enso_signal) ==
    LET holding_times == holding_times_of(triggers, enso_signal)
    IN  IF holding_times = <<>>
        THEN [primary_duration |-> "N/A - No active position recommended",
              all_triggers |-> <<>>,
              exit_summary |->
                  "Wait for clear weather or fundamental trigger before entering"]
        ELSE LET primary == PrimaryLoop(holding_times[1], holding_times)
             IN  [primary_duration |-> primary.duration,
                  primary_trigger |-> primary.trigger,
                  primary_exit |-> primary.exit_condition,
                  all_triggers |-> holding_times,
                  exit_summary |-> primary.exit_condition]

generate_correlated_risk_warning(triggers, stocks_ratio) ==
    IF ~triggers.dual_region_stress THEN None
    ELSE Some([text |-> "CORRELATED SUPPLY DESTRUCTION WARNING",
               regions_affected |-> triggers.stressed_regions,
               stocks_ratio |-> stocks_ratio])

\* variant: the two band boundaries belong to the lower band
generate_amplifier_explanation_exclusive(stocks_ratio, multiplier) ==
    IF stocks_ratio > 3500 THEN "healthy"
    ELSE IF stocks_ratio > 3000 THEN "below comfortable levels"
    ELSE "structural deficit"

generate_amplifier_explanation(stocks_ratio, multiplier) ==
    IF stocks_ratio >= 3500 THEN "healthy"
    ELSE IF stocks_ratio >= 3000 THEN "below comfortable levels"
    ELSE "structural deficit"

\* the regions that have at least one alert, as listed in the weather paragraph
weather_alerts_of(weather_data) == StressedRegions(weather_data.regions)

TechnicalUnavailable ==
    "Technical analysis is currently unavailable due to data limitations."

\* every comparison is false for a NaN RSI, which leaves the last branch
rsi_text_of(rsi) ==
    IF Above(rsi, 70) THEN "overbought"
    ELSE IF Below(rsi, 30) THEN "deeply oversold"
    ELSE IF Above(rsi, 60) THEN "healthy bullish momentum"
    ELSE IF Below(rsi, 40) THEN "weakening momentum"
    ELSE "neutral territory"

\* f"{trend_text}. {rsi_text}."
technical_para_of(trend, rsi) ==
    LET rsi_text == rsi_text_of(rsi)
    IN  IF trend = "Uptrend"
        THEN CASE rsi_text = "overbought" -> "above the 50-day SMA. overbought."
               [] rsi_text = "deeply oversold" -> "above the 50-day SMA. deeply oversold."
               [] rsi_text = "healthy bullish momentum" ->
                      "above the 50-day SMA. healthy bullish momentum."
               [] rsi_text = "weakening momentum" ->
                      "above the 50-day SMA. weakening momentum."
               [] OTHER -> "above the 50-day SMA. neutral territory."
        ELSE CASE rsi_text = "overbought" -> "below the 50-day SMA. overbought."
               [] rsi_text = "deeply oversold" -> "below the 50-day SMA. deeply oversold."
               [] rsi_text = "healthy bullish momentum" ->
                      "below the 50-day SMA. healthy bullish momentum."
               [] rsi_text = "weakening momentum" ->
                      "below the 50-day SMA. weakening momentum."
               [] OTHER -> "below the 50-day SMA. neutral territory."

\* the paragraphs that full_narrative joins with blank lines, in order
full_narrative_of(fundamental_para, technical_para, weather_para, correlated_warning) ==
    <<fundamental_para, technical_para, weather_para>>
    \o (IF correlated_warning # None THEN <<correlated_warning[1].text>> ELSE <<>>)

\* enso_data is None or Some(record)
generate_market_narrative(technical_data, fundamental_data, weather_data, news_sentiment, enso_data) ==
    LET stocks_ratio == fundamental_data.stocks_ratio
        multiplier == fundamental_data.multiplier
        triggers == analyze_weather_triggers(weather_data)
        enso_signal == IF enso_data # None THEN enso_data[1].signal ELSE "None"
        holding_info == calculate_holding_time(triggers, enso_signal)
        correlated_warning == generate_correlated_risk_warning(triggers, stocks_ratio)
        fundamental_para ==
            IF stocks_ratio < 3000 THEN "structural deficit"
            ELSE IF stocks_ratio < 3500 THEN "below comfortable levels"
            ELSE "adequate inventory"
        technical_para ==
            IF technical_data.price = None THEN TechnicalUnavailable
            ELSE technical_para_of(technical_data.trend, technical_data.rsi[1])
        weather_alerts == weather_alerts_of(weather_data)
        weather_para ==
            IF weather_data.dual_region_drought_detected THEN "CRITICAL WEATHER ALERT"
            ELSE IF weather_alerts # <<>> THEN "stress conditions"
            ELSE "normal seasonal parameters"
    IN  [fundamental_paragraph |-> fundamental_para,
         technical_paragraph |-> technical_para,
         weather_paragraph |-> weather_para,
         news_sentiment |-> news_sentiment,
         full_narrative |->
             full_narrative_of(fundamental_para, technical_para, weather_para,
                               correlated_warning),
         holding_time |-> holding_info,
         correlated_warning |-> correlated_warning,
         amplifier_explanation |->
             generate_amplifier_explanation(stocks_ratio, multiplier),
         triggers |-> triggers]

\* ----------------------------------------------------- the run of a program
Init ==
    /\ entry \in {"run_dashboard", "generate_html"}
    /\ pc = "analyze_weather"
    /\ locations \in { SubSeq(RegionNames, 1, n) : n \in 1..MaxRegions }
    /\ results = EmptyResults
    /\ ratio \in StocksRatios
    /\ enso = None
    /\ fundamentals = None
    /\ verdict = None
    /\ narrative = None
    /\ tech_data = None
    /\ input = None
    /\ output = None
    /\ config = Some(ConfigFile(Some(ratio), None, None))

\* analyze_weather: one iteration of the loop over the locations
AssessRegion ==
    /\ pc = "analyze_weather"
    /\ Len(results.regions) < Len(locations)
    /\ \E feed \in RegionFeeds :
         LET name == locations[Len(results.regions) + 1]
             data == RegionData(name, feed)
         IN  IF StdevIsZero(yearly_rainfall(feed))
             THEN \* ZeroDivisionError leaves analyze_weather
                  /\ pc' = "crashed"
                  /\ UNCHANGED results
             ELSE /\ results' =
                        [results EXCEPT
                           !.regions = Append(@, data),
                           !.severe_drought_regions =
                               IF data.drought_status = "Severe Drought"
                               THEN Append(@, name) ELSE @]
                  /\ UNCHANGED pc
    /\ UNCHANGED <<entry, locations, ratio, enso, fundamentals, verdict, narrative>>
    /\ UNCHANGED <<tech_data, input, output, config>>

\* variant: the check and the return sit inside the loop body
ReturnWeather_in_loop ==
    /\ pc = "analyze_weather"
    /\ Len(results.regions) >= 1
    /\ results' = [results EXCEPT !.dual_region_drought_detected =
                                     Len(results.severe_drought_regions) >= 2]
    /\ pc' = "get_enso_signal"
    /\ UNCHANGED <<entry, locations, ratio, enso, fundamentals, verdict, narrative>>
    /\ UNCHANGED <<tech_data, input, output, config>>

\* analyze_weather: after the loop, the dual-region check and the return
ReturnWeather ==
    /\ pc = "analyze_weather"
    /\ Len(results.regions) = Len(locations)
    /\ results' = [results EXCEPT !.dual_region_drought_detected =
                                     Len(results.severe_drought_regions) >= 2]
    /\ pc' = "get_enso_signal"
    /\ UNCHANGED <<entry, locations, ratio, enso, fundamentals, verdict, narrative>>
    /\ UNCHANGED <<tech_data, input, output, config>>

GetEnsoSignal ==
    /\ pc = "get_enso_signal"
    /\ \E oni_value \in OniReadings : enso' = Some(get_enso_signal_of(oni_value))
    /\ pc' = "get_fundamentals_analysis"
    /\ UNCHANGED <<entry, locations, results, ratio, fundamentals, verdict, narrative>>
    /\ UNCHANGED <<tech_data, input, output, config>>

\* load_fundamentals raises FileNotFoundError without the file, and the
\* lookup of the ratio raises KeyError without its key
GetFundamentalsAnalysis ==
    /\ pc = "get_fundamentals_analysis"
    /\ IF config = None \/ config[1].global_stocks_to_usage_ratio = None
       THEN /\ pc' = "crashed"
            /\ UNCHANGED fundamentals
       ELSE /\ fundamentals' =
                   Some(get_fundamentals_analysis_of(
                            config[1].global_stocks_to_usage_ratio[1]))
            /\ pc' = IF entry = "run_dashboard" THEN "print_sections"
                     ELSE "get_technical_analysis"
    /\ UNCHANGED <<entry, locations, results, ratio, enso, verdict, narrative>>
    /\ UNCHANGED <<tech_data, input, output, config>>

\* generate_html: the technical record of the price history fetched
GetTechnicalAnalysis ==
    /\ pc = "get_technical_analysis"
    /\ entry = "generate_html"
    /\ \E closes \in PipelinePriceFeeds :
         tech_data' = Some(get_technical_analysis_of(closes))
    /\ pc' = "calculate_verdict"
    /\ UNCHANGED <<entry, locations, results, ratio, enso, fundamentals, verdict, narrative>>
    /\ UNCHANGED <<input, output, config>>

\* run_dashboard: the sections printed before the signal summary; formatting
\* the ONI value with :.2f raises TypeError when the value is None
PrintSections ==
    /\ pc = "print_sections"
    /\ pc' = IF enso[1].value = None THEN "crashed" ELSE "calculate_risk_appetite"
    /\ UNCHANGED <<entry, locations, results, ratio, enso, fundamentals, verdict, narrative>>
    /\ UNCHANGED <<tech_data, input, output, config>>

\* run_dashboard: the fusion step and the recommendation
CalculateRiskAppetite ==
    /\ pc = "calculate_risk_appetite"
    /\ verdict' = Some(calculate_risk_appetite(results, enso[1], fundamentals[1]))
    /\ pc' = "done"
    /\ UNCHANGED <<entry, locations, results, ratio, enso, fundamentals, narrative>>
    /\ UNCHANGED <<tech_data, input, output, config>>

\* generate_html: the fusion step
CalculateVerdict ==
    /\ pc = "calculate_verdict"
    /\ verdict' = Some(calculate_verdict(results, enso[1], fundamentals[1]))
    /\ pc' = "generate_market_narrative"
    /\ UNCHANGED <<entry, locations, results, ratio, enso, fundamentals, narrative>>
    /\ UNCHANGED <<tech_data, input, output, config>>

\* fundamentals.get("news_sentiment", "NEUTRAL")
news_sentiment_of(fundamental_data) ==
    IF "news_sentiment" \in DOMAIN fundamental_data
    THEN fundamental_data["news_sentiment"] ELSE "NEUTRAL"

\* generate_html: the narrative, called without the climate record
GenerateMarketNarrative ==
    /\ pc = "generate_market_narrative"
    /\ entry = "generate_html"
    /\ narrative' = Some(generate_market_narrative(tech_data[1], fundamentals[1], results,
                             news_sentiment_of(fundamentals[1]), None))
    /\ pc' = "render"
    /\ UNCHANGED <<entry, locations, results, ratio, enso, fundamentals, verdict>>
    /\ UNCHANGED <<tech_data, input, output, config>>

\* generate_html: the page; formatting the SMA, the RSI or the ONI value
\* raises when it is None
RenderHtml ==
    /\ pc = "render"
    /\ pc' = IF tech_data[1].sma = None \/ enso[1].value = None THEN "crashed" ELSE "done"
    /\ UNCHANGED <<entry, locations, results, ratio, enso, fundamentals, verdict, narrative>>
    /\ UNCHANGED <<tech_data, input, output, config>>

Next ==
    \/ AssessRegion
    \/ ReturnWeather
    \/ GetEnsoSignal
    \/ GetFundamentalsAnalysis
    \/ GetTechnicalAnalysis
    \/ PrintSections
    \/ CalculateRiskAppetite
    \/ CalculateVerdict
    \/ GenerateMarketNarrative
    \/ RenderHtml

Spec == Init /\ [][Next]_vars

\* ------------------------------- generate_market_narrative called directly
\* Every classified weather record over the configured regions, every
\* climate record (or none) and every fundamentals record.
DroughtStatuses == {"Severe Drought", "Dry Warning", "Normal"}
HeatStatuses == {"Critical Heat", "Normal"}
HarmattanStatuses == {"Harmattan Active", "Normal"}
RegionStatuses ==
    [drought_status: DroughtStatuses, heat_status: HeatStatuses,
     harmattan_status: HarmattanStatuses]

WeatherRecords(locs) ==
    { [regions |-> [i \in 1..Len(locs) |->
                       [name |-> locs[i],
                        drought_status |-> st[i].drought_status,
                        heat_status |-> st[i].heat_status,
                        harmattan_status |-> st[i].harmattan_status]],
       dual_region_drought_detected |-> dual]
      : st \in [1..Len(locs) -> RegionStatuses], dual \in BOOLEAN }

NewsStatuses == {"NEUTRAL", "BULLISH"}

\* the technical record of the module's own test run
SampleTechnical ==
    [price |-> Some(5800), rsi |-> Some(<<62, 1>>), sma |-> Some(<<5750, 1>>),
     signal |-> "BUY", trend |-> "Uptrend", rsi_status |-> "Neutral"]

InitNarrative ==
    /\ entry = "market_narrative"
    /\ pc = "generate_market_narrative"
    /\ locations \in { SubSeq(RegionNames, 1, n) : n \in 1..MaxRegions }
    /\ results \in WeatherRecords(locations)
    /\ ratio \in StocksRatios
    /\ enso \in {None} \cup { Some(get_enso_signal_of(v)) : v \in OniReadings }
    /\ fundamentals = Some(get_fundamentals_analysis_of(ratio))
    /\ verdict = None
    /\ narrative = None
    /\ tech_data = Some(SampleTechnical)
    /\ input = None
    /\ output = None
    /\ config = None

NarrativeCall ==
    /\ pc = "generate_market_narrative"
    /\ entry \in {"market_narrative", "technical_analysis"}
    /\ \E news_sentiment \in NewsStatuses :
         narrative' = Some(generate_market_narrative(tech_data[1], fundamentals[1], results,
                               news_sentiment, enso))
    /\ pc' = "done"
    /\ UNCHANGED <<entry, locations, results, ratio, enso, fundamentals, verdict>>
    /\ UNCHANGED <<tech_data, input, output, config>>

NextNarrative == NarrativeCall

SpecNarrative == InitNarrative /\ [][NextNarrative]_vars

\* ------------------- get_technical_analysis, then generate_market_narrative
\* The price history is drawn from PriceFeeds; the other arguments of the
\* narrative are those of its own test run.
SampleWeather ==
    [regions |->
        <<[name |-> "San Pedro", drought_status |-> "Normal", heat_status |-> "Normal",
           harmattan_status |-> "Normal"],
          [name |-> "Kumasi", drought_status |-> "Normal", heat_status |-> "Critical Heat",
           harmattan_status |-> "Normal"]>>,
     dual_region_drought_detected |-> FALSE]

SampleStocksRatio == 2950

InitTechnical ==
    /\ entry = "technical_analysis"
    /\ pc = "get_technical_analysis"
    /\ locations = <<"San Pedro", "Kumasi">>
    /\ results = SampleWeather
    /\ ratio = SampleStocksRatio
    /\ enso = None
    /\ fundamentals = Some(get_fundamentals_analysis_of(ratio))
    /\ verdict = None
    /\ narrative = None
    /\ tech_data = None
    /\ input \in { Some(closes) : closes \in PriceFeeds }
    /\ output = None
    /\ config = None

TechnicalAnalysisCall ==
    /\ pc = "get_technical_analysis"
    /\ entry = "technical_analysis"
    /\ tech_data' = Some(get_technical_analysis_of(input[1]))
    /\ pc' = "generate_market_narrative"
    /\ UNCHANGED <<entry, locations, results, ratio, enso, fundamentals, verdict, narrative>>
    /\ UNCHANGED <<input, output, config>>

NextTechnical ==
    \/ TechnicalAnalysisCall
    \/ NarrativeCall

SpecTechnical == InitTechnical /\ [][NextTechnical]_vars

\* ------------------------------------- analyze_weather on one region's feed
\* the averages stored next to the statuses of a region
RegionAverages(feed) ==
    [avg_max_temp |-> mean_or(feed.temperature_2m_max, 0),
     avg_wind_speed |-> mean_or(feed.wind_speed_10m_max, 0),
     avg_humidity |-> mean_or(feed.relative_humidity_2m_mean, 1000)]

InitRegion ==
    /\ entry = "analyze_weather"
    /\ pc = "analyze_weather"
    /\ locations = <<RegionNames[1]>>
    /\ results = EmptyResults
    /\ ratio = SampleStocksRatio
    /\ enso = None
    /\ fundamentals = None
    /\ verdict = None
    /\ narrative = None
    /\ tech_data = None
    /\ input \in { Some(feed) : feed \in RegionBoundaryFeeds }
    /\ output = None
    /\ config = None

\* the loop body of analyze_weather on the feed given; output keeps the
\* averages of the region record
AssessGivenRegion ==
    /\ pc = "analyze_weather"
    /\ entry = "analyze_weather"
    /\ Len(results.regions) < Len(locations)
    /\ LET feed == input[1]
           name == locations[Len(results.regions) + 1]
           data == RegionData(name, feed)
       IN  IF StdevIsZero(yearly_rainfall(feed))
           THEN \* ZeroDivisionError leaves analyze_weather
                /\ pc' = "crashed"
                /\ UNCHANGED <<results, output>>
           ELSE /\ results' =
                      [results EXCEPT
                         !.regions = Append(@, data),
                         !.severe_drought_regions =
                             IF data.drought_status = "Severe Drought"
                             THEN Append(@, name) ELSE @]
                /\ output' = Some(RegionAverages(feed))
                /\ UNCHANGED pc
    /\ UNCHANGED <<entry, locations, ratio, enso, fundamentals, verdict, narrative>>
    /\ UNCHANGED <<tech_data, input, config>>

NextRegion ==
    \/ AssessGivenRegion
    \/ ReturnWeather

SpecRegion == InitRegion /\ [][NextRegion]_vars

\* ----------------------------------------------- get_enso_signal on a text
\* the year-range header
HeaderRow ==
    <<<<"1", "9", "5", "0">>, <<"2", "0", "2", "5">>>>

\* two readings, then the missing-data indicator
Row2023 ==
    <<<<"2", "0", "2", "3">>, <<"0", ".", "5", "0">>, <<"1", ".", "2", "0">>, <<"-", "9", "9", ".", "9", "0">>>>

\* a short row of an earlier year
Row2022 ==
    <<<<"2", "0", "2", "2">>, <<"1", ".", "3", "0">>, <<"-", "1", ".", "0", "0">>>>

\* twelve readings and a thirteenth value column
Row2021 ==
    <<<<"2", "0", "2", "1">>, <<"0", ".", "0", "0">>, <<"0", ".", "0", "0">>, <<"0", ".", "0", "0">>, <<"0", ".", "0", "0">>, <<"0", ".", "0", "0">>, <<"0", ".", "0", "0">>, <<"0", ".", "0", "0">>, <<"0", ".", "0", "0">>, <<"0", ".", "0", "0">>, <<"0", ".", "0", "0">>, <<"0", ".", "0", "0">>, <<"-", "1", ".", "0", "1">>, <<"1", ".", "3", "0">>>>

\* a short row of the latest year
Row2025 ==
    <<<<"2", "0", "2", "5">>, <<"-", "1", ".", "0", "1">>, <<"1", ".", "2", "1">>>>

\* a data row without any reading
Row2020 ==
    <<<<"2", "0", "2", "0">>, <<"N", "A">>, <<"-", "9", "9", ".", "9">>>>

\* a row whose first token is not a number
FooterRow ==
    <<<<"O", "N", "I">>, <<"1", ".", "3", "0">>, <<"1", ".", "3", "0">>>>

OniRows == {HeaderRow, Row2023, Row2022, Row2021, Row2025, Row2020, FooterRow}

RECURSIVE TextsOf(_)
TextsOf(n) ==
    IF n = 0 THEN {<<>>}
    ELSE LET shorter == TextsOf(n - 1)
         IN  shorter \cup { Append(t, r) : t \in { u \in shorter : Len(u) = n - 1 },
                                          r \in OniRows }

OniTexts == TextsOf(MaxLines)

InitOni ==
    /\ entry = "get_enso_signal"
    /\ pc = "get_enso_signal"
    /\ locations = <<>>
    /\ results = EmptyResults
    /\ ratio = SampleStocksRatio
    /\ enso = None
    /\ fundamentals = None
    /\ verdict = None
    /\ narrative = None
    /\ tech_data = None
    /\ input \in { Some(text) : text \in OniTexts }
    /\ output = None
    /\ config = None

\* output keeps what parse_oni_data returned, enso what get_enso_signal did
EnsoSignalCall ==
    /\ pc = "get_enso_signal"
    /\ entry = "get_enso_signal"
    /\ output' = Some(parse_oni_data(input[1]))
    /\ enso' = Some(get_enso_signal(input[1]))
    /\ pc' = "done"
    /\ UNCHANGED <<entry, locations, results, ratio, fundamentals, verdict, narrative>>
    /\ UNCHANGED <<tech_data, input, config>>

NextOni == EnsoSignalCall

SpecOni == InitOni /\ [][NextOni]_vars

\* ------------------------------- get_enso_signal on a text with bad tokens
\* a word, a reading, the missing-data indicator, a reading
Row2024 ==
    <<<<"2", "0", "2", "4">>, <<"N", "A">>, <<"0", ".", "7", "0">>, <<"-", "9", "9", ".", "9", "0">>, <<"0", ".", "4", "0">>>>

\* a reading, then a value column spelling "nan"
Row2026 ==
    <<<<"2", "0", "2", "6">>, <<"0", ".", "5", "0">>, <<"n", "a", "n">>>>

\* a data row whose only value column spells "nan"
Row2019 ==
    <<<<"2", "0", "1", "9">>, <<"N", "a", "N">>, <<"-", "-">>>>

TokenRows == {HeaderRow, Row2023, Row2020, Row2024, Row2026, Row2019, FooterRow}

RECURSIVE TokenTextsOf(_)
TokenTextsOf(n) ==
    IF n = 0 THEN {<<>>}
    ELSE LET shorter == TokenTextsOf(n - 1)
         IN  shorter \cup { Append(t, r) : t \in { u \in shorter : Len(u) = n - 1 },
                                          r \in TokenRows }

InitOniTokens ==
    /\ entry = "get_enso_signal"
    /\ pc = "get_enso_signal"
    /\ locations = <<>>
    /\ results = EmptyResults
    /\ ratio = SampleStocksRatio
    /\ enso = None
    /\ fundamentals = None
    /\ verdict = None
    /\ narrative = None
    /\ tech_data = None
    /\ input \in { Some(text) : text \in TokenTextsOf(MaxLines) }
    /\ output = None
    /\ config = None

SpecOniTokens == InitOniTokens /\ [][NextOni]_vars

\* ------------------------------------------- get_news_sentiment on a feed
\* one bullish keyword
ShortageHeadline ==
    <<"C", "o", "c", "o", "a", " ", "s", "h", "o", "r", "t", "a", "g", "e", " ", "f",
      "e", "a", "r", "s", " ", "g", "r", "o", "w">>

\* one bearish keyword
RainHeadline ==
    <<"I", "v", "o", "r", "y", " ", "C", "o", "a", "s", "t", " ", "r", "a", "i", "n",
      " ", "i", "m", "p", "r", "o", "v", "e", "s", " ", "o", "u", "t", "l", "o", "o",
      "k">>

\* upper case, one keyword of each vocabulary
UpperCaseHeadline ==
    <<"D", "R", "O", "U", "G", "H", "T", " ", "E", "A", "S", "E", "S", " ", "A", "S",
      " ", "R", "A", "I", "N", " ", "R", "E", "T", "U", "R", "N", "S">>

\* no keyword
QuietHeadline ==
    <<"C", "o", "c", "o", "a", " ", "p", "r", "i", "c", "e", "s", " ", "s", "t", "e",
      "a", "d", "y">>

\* two bullish keywords
RallyHeadline ==
    <<"R", "e", "c", "o", "r", "d", " ", "H", "i", "g", "h", " ", "R", "a", "l", "l",
      "y">>

\* two bearish keywords, one inside a longer word
GrainHeadline ==
    <<"G", "r", "a", "i", "n", " ", "S", "u", "r", "p", "l", "u", "s">>

Headlines == {ShortageHeadline, RainHeadline, UpperCaseHeadline, QuietHeadline,
              RallyHeadline, GrainHeadline}

RECURSIVE FeedsOf(_)
FeedsOf(n) ==
    IF n = 0 THEN {<<>>}
    ELSE LET shorter == FeedsOf(n - 1)
         IN  shorter \cup { Append(f, h) : f \in { g \in shorter : Len(g) = n - 1 },
                                          h \in Headlines }

InitNews ==
    /\ entry = "get_news_sentiment"
    /\ pc = "get_news_sentiment"
    /\ locations = <<>>
    /\ results = EmptyResults
    /\ ratio = SampleStocksRatio
    /\ enso = None
    /\ fundamentals = None
    /\ verdict = None
    /\ narrative = None
    /\ tech_data = None
    /\ input \in { Some(feed) : feed \in FeedsOf(MaxHeadlines) }
    /\ output = None
    /\ config = None

NewsSentimentCall ==
    /\ pc = "get_news_sentiment"
    /\ entry = "get_news_sentiment"
    /\ output' = Some(get_news_sentiment_of(input[1]))
    /\ pc' = "done"
    /\ UNCHANGED <<entry, locations, results, ratio, enso, fundamentals, verdict, narrative>>
    /\ UNCHANGED <<tech_data, input, config>>

NextNews == NewsSentimentCall

SpecNews == InitNews /\ [][NextNews]_vars

\* ------------------------- the news scorer's runs, then a dashboard run
\* fetch_news_sentiment.main may run any number of times against the same
\* fundamentals.json before generate_html runs. input keeps the file as it
\* was before the first run, output the result of the last scorer run.
PersistedStatuses == {"CRITICAL DEFICIT", "SURPLUS", "NEUTRAL"}

UpdatedStamp == "2024-01-15"

FilesFor(stocks_ratio) ==
    {None} \cup
    { Some(ConfigFile(r, s, u)) :
          r \in {None, Some(stocks_ratio)},
          s \in {None} \cup { Some(st) : st \in PersistedStatuses },
          u \in {None, Some(UpdatedStamp)} }

PersistFeeds == { <<ShortageHeadline>>, <<RainHeadline>>, <<QuietHeadline>> }

InitPersist ==
    /\ entry = "fetch_news_sentiment"
    /\ pc = "idle"
    /\ locations = SubSeq(RegionNames, 1, 1)
    /\ results = EmptyResults
    /\ ratio \in StocksRatios
    /\ enso = None
    /\ fundamentals = None
    /\ verdict = None
    /\ narrative = None
    /\ tech_data = None
    /\ config \in FilesFor(ratio)
    /\ input = Some(config)
    /\ output = None

\* fetch_news_sentiment.main: score the feed, write the status through
NewsMain ==
    /\ pc = "idle"
    /\ entry = "fetch_news_sentiment"
    /\ \E feed \in PersistFeeds :
           LET result == get_news_sentiment_of(feed)
           IN  /\ output' = Some(result)
               /\ config' = update_fundamentals(config, result.status)
    /\ UNCHANGED <<entry, pc, locations, results, ratio, enso, fundamentals, verdict>>
    /\ UNCHANGED <<narrative, tech_data, input>>

\* the later run of generate_html
StartDashboard ==
    /\ pc = "idle"
    /\ entry = "fetch_news_sentiment"
    /\ entry' = "generate_html"
    /\ pc' = "analyze_weather"
    /\ UNCHANGED <<locations, results, ratio, enso, fundamentals, verdict, narrative>>
    /\ UNCHANGED <<tech_data, input, output, config>>

NextPersist ==
    \/ NewsMain
    \/ StartDashboard
    \/ AssessRegion
    \/ ReturnWeather
    \/ GetEnsoSignal
    \/ GetFundamentalsAnalysis
    \/ GetTechnicalAnalysis
    \/ CalculateVerdict
    \/ GenerateMarketNarrative
    \/ RenderHtml

SpecPersist == InitPersist /\ [][NextPersist]_vars

TypeOK ==
    /\ entry \in {"run_dashboard", "generate_html", "market_narrative",
                  "technical_analysis", "get_enso_signal", "analyze_weather",
                  "get_news_sentiment", "fetch_news_sentiment"}
    /\ pc \in {"analyze_weather", "get_enso_signal", "get_fundamentals_analysis",
               "print_sections", "calculate_risk_appetite", "calculate_verdict",
               "get_technical_analysis", "get_news_sentiment",
               "generate_market_narrative", "render", "idle", "done", "crashed"}
    /\ Len(results.regions) <= Len(locations)

\* ===================================================================== claims
\* the tier a verdict label stands for
TierOfAppetite(label) ==
    CASE label = "MAXIMUM CONVICTION" -> "MaxConviction"
      [] label = "HIGH CONVICTION" -> "HighConviction"
      [] label = "MODERATE BULLISH" -> "ModerateBullish"
      [] label = "CAUTIOUS" -> "Cautious"
      [] label = "NEUTRAL" -> "Neutral"

TierOfVerdict(label) ==
    CASE label = "MAXIMUM CONVICTION LONG" -> "MaxConviction"
      [] label = "HIGH CONVICTION LONG" -> "HighConviction"
      [] label = "MODERATE BULLISH" -> "ModerateBullish"
      [] label = "CAUTIOUS" -> "Cautious"
      [] label = "NEUTRAL - NO POSITION" -> "Neutral"

TierOf(label) ==
    IF entry = "run_dashboard" THEN TierOfAppetite(label) ELSE TierOfVerdict(label)

\* number of signals of a list that satisfy a test, counted by position
NumSignals(signals, Test(_)) == Cardinality({ i \in DOMAIN signals : Test(signals[i]) })

IsExtreme(sig) == sig.type = "EXTREME_BULLISH"
IsBullish(sig) == sig.type \in {"BULLISH", "EXTREME_BULLISH"}
IsBearish(sig) == sig.type = "BEARISH"

PriorityTier(signals) ==
    IF NumSignals(signals, IsExtreme) > 0 THEN "MaxConviction"
    ELSE IF NumSignals(signals, IsBullish) >= 2 THEN "HighConviction"
    ELSE IF NumSignals(signals, IsBullish) = 1 THEN "ModerateBullish"
    ELSE IF NumSignals(signals, IsBearish) > 0 THEN "Cautious"
    ELSE "Neutral"

Fused == verdict # None
FusedByMain == entry = "run_dashboard" /\ verdict # None

\* C1: calculate_risk_appetite assigns the tier by strict priority over the
\* signals it emitted (extreme > 0, then bullish >= 2, then bullish = 1, then
\* bearish > 0, then Neutral); with bullishCount >= 1 the tier is the one the
\* same inputs give with a climate index that is not Bearish, and a set
\* dual-region flag gives MaxConviction whatever the climate polarity.
C1_TierByPriority ==
    FusedByMain =>
        LET v == verdict[1]
            other == calculate_risk_appetite(
                        results, [enso[1] EXCEPT !.signal = "NEUTRAL"], fundamentals[1])
        IN  /\ TierOfAppetite(v.verdict) = PriorityTier(v.signals)
            /\ (enso[1].signal = "BEARISH" /\ NumSignals(v.signals, IsBullish) >= 1
                  => TierOfAppetite(v.verdict) = TierOfAppetite(other.verdict))
            /\ (results.dual_region_drought_detected
                  => TierOfAppetite(v.verdict) = "MaxConviction")

C1_Witness ==
    /\ FusedByMain
    /\ enso[1].signal = "BEARISH"
    /\ NumSignals(verdict[1].signals, IsBullish) = 1
    /\ verdict[1].verdict = "MODERATE BULLISH"

\* C2: on the same weather, climate and fundamentals records,
\* calculate_verdict returns the same signal list, the same multiplier and
\* the same tier as calculate_risk_appetite.
C2_DashboardMatchesMain ==
    Fused =>
        LET a == calculate_risk_appetite(results, enso[1], fundamentals[1])
            d == calculate_verdict(results, enso[1], fundamentals[1])
        IN  /\ a.signals = d.signals
            /\ a.multiplier = d.multiplier
            /\ TierOfAppetite(a.verdict) = TierOfVerdict(d.verdict)

\* the conditions of a region that are active
ActiveConditions(data) ==
    (IF data.drought_status = "Severe Drought" THEN {"Drought"} ELSE {})
    \cup (IF data.heat_status = "Critical Heat" THEN {"Heat Stress"} ELSE {})
    \cup (IF data.harmattan_status = "Harmattan Active" THEN {"Harmattan"} ELSE {})

ConditionNames == {"Drought", "Heat Stress", "Harmattan"}

\* positions of the signals of one type, one region and one name
SignalsAt(signals, type, region, name) ==
    { i \in DOMAIN signals : signals[i] = Signal(type, region, name) }

\* C3: the fusion step emits signals with multiplicity: one ExtremeBullish
\* signal iff the dual-region flag is set, one Bullish signal per region and
\* active condition (k active conditions give k signals), one Bullish or one
\* Bearish signal from the climate index and nothing else; a single region at
\* Severe drought + Critical heat with all else normal and a Neutral climate
\* index gives bullishCount = 2 and HighConviction, not MaxConviction.
C3_SignalMultiplicity ==
    Fused =>
        LET sigs == verdict[1].signals
            regs == results.regions
            total == (IF results.dual_region_drought_detected THEN 1 ELSE 0)
                     + SumSeq([i \in DOMAIN regs |-> Cardinality(ActiveConditions(regs[i]))])
                     + (IF enso[1].signal \in {"BULLISH", "BEARISH"} THEN 1 ELSE 0)
        IN  /\ NumSignals(sigs, IsExtreme)
                 = (IF results.dual_region_drought_detected THEN 1 ELSE 0)
            /\ \A i \in DOMAIN regs : \A c \in ConditionNames :
                 Cardinality(SignalsAt(sigs, "BULLISH", regs[i].name, c))
                   = (IF c \in ActiveConditions(regs[i]) THEN 1 ELSE 0)
            /\ \A i \in DOMAIN regs :
                 Cardinality({ j \in DOMAIN sigs : sigs[j].region = regs[i].name })
                   = Cardinality(ActiveConditions(regs[i]))
            /\ Cardinality({ j \in DOMAIN sigs : sigs[j].region = "" /\ sigs[j].type = "BULLISH" })
                 = (IF enso[1].signal = "BULLISH" THEN 1 ELSE 0)
            /\ NumSignals(sigs, IsBearish) = (IF enso[1].signal = "BEARISH" THEN 1 ELSE 0)
            /\ Len(sigs) = total
            /\ ( /\ enso[1].signal = "NEUTRAL"
                 /\ \E i \in DOMAIN regs :
                      /\ ActiveConditions(regs[i]) = {"Drought", "Heat Stress"}
                      /\ \A k \in DOMAIN regs \ {i} : ActiveConditions(regs[k]) = {}
                 => /\ NumSignals(sigs, IsBullish) = 2
                    /\ NumSignals(sigs, IsExtreme) = 0
                    /\ TierOf(verdict[1].verdict) = "HighConviction" )

C3_Witness ==
    /\ FusedByMain
    /\ Len(results.regions) = 2
    /\ enso[1].signal = "NEUTRAL"
    /\ ActiveConditions(results.regions[1]) = {"Drought", "Heat Stress"}
    /\ ActiveConditions(results.regions[2]) = {}
    /\ Len(verdict[1].signals) = 2
    /\ verdict[1].verdict = "HIGH CONVICTION"

\* a weather record that differs from w in one region's statuses or in the flag
WeatherNeighbours(w) ==
    { [w EXCEPT !.regions[i].drought_status = st.drought_status,
                !.regions[i].heat_status = st.heat_status,
                !.regions[i].harmattan_status = st.harmattan_status]
        : i \in DOMAIN w.regions, st \in RegionStatuses }
    \cup { [w EXCEPT !.dual_region_drought_detected = b] : b \in BOOLEAN }

EnsoRecords == { get_enso_signal_of(v) : v \in OniReadings }

FusionOf(w, e, f) ==
    IF entry = "run_dashboard" THEN calculate_risk_appetite(w, e, f)
    ELSE calculate_verdict(w, e, f)

\* C4: the multiplier the fusion step returns is the fundamental classifier's
\* multiplier for the ratio: no change of a weather or climate input changes
\* it, and no change of the ratio changes the tier or the signal list.
C4_MultiplierIndependent ==
    Fused =>
        LET v == verdict[1]
        IN  /\ v.multiplier = calculate_position_multiplier(ratio)[1]
            /\ \A w \in WeatherNeighbours(results) :
                 FusionOf(w, enso[1], fundamentals[1]).multiplier = v.multiplier
            /\ \A e \in EnsoRecords :
                 FusionOf(results, e, fundamentals[1]).multiplier = v.multiplier
            /\ \A r \in StocksRatios :
                 LET o == FusionOf(results, enso[1], get_fundamentals_analysis_of(r))
                 IN  o.verdict = v.verdict /\ o.signals = v.signals

C4_Witness ==
    /\ FusedByMain
    /\ results.dual_region_drought_detected
    /\ ratio = 3500
    /\ verdict[1].multiplier = 10
    /\ verdict[1].verdict = "MAXIMUM CONVICTION"

RegionOrders(n) == { p \in [1..n -> 1..n] : \A i, j \in 1..n : p[i] = p[j] => i = j }

Permuted(w, p) == [w EXCEPT !.regions = [i \in DOMAIN w.regions |-> w.regions[p[i]]]]

\* C5: permuting the order of the regions leaves the tier, bullishCount,
\* extremeCount and bearishCount of calculate_risk_appetite unchanged.
C5_RegionOrderIndependent ==
    FusedByMain =>
        \A p \in RegionOrders(Len(results.regions)) :
            LET v == verdict[1]
                o == calculate_risk_appetite(Permuted(results, p), enso[1], fundamentals[1])
            IN  /\ o.verdict = v.verdict
                /\ NumSignals(o.signals, IsBullish) = NumSignals(v.signals, IsBullish)
                /\ NumSignals(o.signals, IsExtreme) = NumSignals(v.signals, IsExtreme)
                /\ NumSignals(o.signals, IsBearish) = NumSignals(v.signals, IsBearish)

\* two regions with different alerts, so that a swap changes the signal list
C5_Witness ==
    /\ FusedByMain
    /\ Len(results.regions) >= 2
    /\ ActiveConditions(results.regions[1]) = {"Drought", "Heat Stress"}
    /\ ActiveConditions(results.regions[2]) = {"Harmattan"}
    /\ calculate_risk_appetite(Permuted(results, <<2, 1>> \o [i \in 1..(Len(results.regions) - 2) |-> i + 2]),
                               enso[1], fundamentals[1]).signals # verdict[1].signals

\* ---------------------------------------------------------- holding time
Narrated == narrative # None

DroughtActive == \E i \in DOMAIN results.regions :
                    results.regions[i].drought_status = "Severe Drought"
HeatActive == \E i \in DOMAIN results.regions :
                    results.regions[i].heat_status = "Critical Heat"
HarmattanActive == \E i \in DOMAIN results.regions :
                    results.regions[i].harmattan_status = "Harmattan Active"
\* the climate-index trigger, as handed to generate_market_narrative
ClimateActive == entry = "market_narrative" /\ enso # None /\ enso[1].signal = "BULLISH"

ActiveTriggers ==
    (IF DroughtActive THEN {"Drought"} ELSE {})
    \cup (IF HeatActive THEN {"Heat Stress"} ELSE {})
    \cup (IF HarmattanActive THEN {"Harmattan Winds"} ELSE {})
    \cup (IF ClimateActive THEN {"El Nino"} ELSE {})

TriggerNames == {"Drought", "Heat Stress", "Harmattan Winds", "El Nino"}

DurationOf(trigger) ==
    CASE trigger = "Drought" -> "3-4 weeks"
      [] trigger = "Heat Stress" -> "8-10 months"
      [] trigger = "Harmattan Winds" -> "4-6 weeks"
      [] trigger = "El Nino" -> "6-8 months"

C7_OneEstimatePerTrigger ==
    Narrated =>
        LET h == narrative[1].holding_time
            all == h.all_triggers
        IN  /\ \A t \in TriggerNames :
                 Cardinality({ j \in DOMAIN all : all[j].trigger = t })
                   = (IF t \in ActiveTriggers THEN 1 ELSE 0)
            /\ \A j \in DOMAIN all :
                 all[j].trigger \in TriggerNames
                 /\ all[j].duration = DurationOf(all[j].trigger)
            /\ (ActiveTriggers = {}
                  => /\ all = <<>>
                     /\ h.primary_duration = "N/A - No active position recommended")

C7_Witness ==
    /\ Narrated
    /\ Len(results.regions) = 2
    /\ results.regions[1].drought_status = "Severe Drought"
    /\ results.regions[2].drought_status = "Severe Drought"
    /\ ActiveTriggers = {"Drought", "Heat Stress", "El Nino"}
    /\ Len(narrative[1].holding_time.all_triggers) = 3

\* --------------------------------------------------- correlated-risk warning
StressedCount ==
    Cardinality({ i \in DOMAIN results.regions : ActiveConditions(results.regions[i]) # {} })

WarningText == "CORRELATED SUPPLY DESTRUCTION WARNING"

\* C8: the narrative carries a correlated-risk warning (non-null and appended
\* to full_narrative) iff at least two distinct regions are stressed by
\* drought, heat or harmattan in any combination.
C8_WarningIffTwoStressed ==
    Narrated =>
        LET n == narrative[1]
        IN  /\ (n.correlated_warning # None) <=> (StressedCount >= 2)
            /\ (\E i \in DOMAIN n.full_narrative : n.full_narrative[i] = WarningText)
                 <=> (StressedCount >= 2)

C8_Witness ==
    /\ Narrated
    /\ entry = "generate_html"
    /\ Len(results.regions) = 2
    /\ ActiveConditions(results.regions[1]) = {"Heat Stress"}
    /\ ActiveConditions(results.regions[2]) = {"Harmattan"}
    /\ narrative[1].correlated_warning # None
    /\ narrative[1].full_narrative[Len(narrative[1].full_narrative)] = WarningText

\* --------------------------------------------------------------- barrier
SevereCount ==
    Cardinality({ i \in DOMAIN results.regions :
                    results.regions[i].drought_status = "Severe Drought" })

AllRegionsAssessed ==
    /\ Len(results.regions) = Len(locations)
    /\ \A i \in DOMAIN locations : results.regions[i].name = locations[i]

\* C9: the dual-region flag is set only after every configured region has
\* been assessed, its final value is true iff at least two regions are at
\* Severe drought, and no fusion or narrative step runs on a partial set of
\* regions.
C9_FlagAfterAllRegions ==
    /\ (pc = "analyze_weather"
          => ~results.dual_region_drought_detected /\ verdict = None /\ narrative = None)
    /\ (pc \notin {"analyze_weather", "crashed"}
          => /\ AllRegionsAssessed
             /\ results.dual_region_drought_detected <=> (SevereCount >= 2))
    /\ (verdict # None \/ narrative # None \/ enso # None
          => /\ AllRegionsAssessed
             /\ results.dual_region_drought_detected <=> (SevereCount >= 2))

C9_Witness ==
    /\ Fused
    /\ Len(results.regions) >= 2
    /\ SevereCount = 2
    /\ results.dual_region_drought_detected
    /\ TierOf(verdict[1].verdict) = "MaxConviction"

\* ---------------------------------------------------------- fundamentals
\* C10: the fundamental classifier is a step function of the ratio with
\* half-open bands: below 30 CriticalDeficit and 2.5; from 30 and below 35
\* Low and 2.0; from 35 Healthy and 1.0; the status of
\* get_fundamentals_analysis matches the multiplier's band.
C10_StepFunction ==
    fundamentals # None =>
        LET f == fundamentals[1]
        IN  /\ f.stocks_ratio = ratio
            /\ f.multiplier \in {10, 20, 25}
            /\ (ratio < 3000 => f.multiplier = 25 /\ f.status = "CRITICAL_DEFICIT")
            /\ (ratio >= 3000 /\ ratio < 3500 => f.multiplier = 20 /\ f.status = "LOW_STOCKS")
            /\ (ratio >= 3500 => f.multiplier = 10 /\ f.status = "HEALTHY")
            /\ (f.status_display = "CRITICAL DEFICIT") <=> (f.multiplier = 25)
            /\ (f.status_display = "LOW STOCKS") <=> (f.multiplier = 20)
            /\ (f.status_display = "STOCKS HEALTHY") <=> (f.multiplier = 10)

C10_Witness ==
    /\ fundamentals # None
    /\ entry = "run_dashboard"
    /\ ratio = 3000
    /\ fundamentals[1].multiplier = 20
    /\ fundamentals[1].status = "LOW_STOCKS"

\* ------------------------------------------------------------------ C11..C20
\* the technical record of a history long enough to be analysed
Analysed == tech_data # None /\ tech_data[1].price # None

\* C11: the technical signal is a total function of (trend, momentum):
\* BUY exactly for an Uptrend that is Oversold or Neutral, SELL exactly for
\* a Downtrend that is Overbought, WAIT for the three other combinations.
C11_DecisionTable ==
    Analysed =>
        LET t == tech_data[1]
        IN  /\ t.trend \in {"Uptrend", "Downtrend"}
            /\ t.rsi_status \in {"Oversold", "Neutral", "Overbought"}
            /\ t.signal \in {"BUY", "SELL", "WAIT"}
            /\ t.signal = "BUY" <=>
                   (t.trend = "Uptrend" /\ t.rsi_status \in {"Oversold", "Neutral"})
            /\ t.signal = "SELL" <=>
                   (t.trend = "Downtrend" /\ t.rsi_status = "Overbought")

C11_Witness ==
    /\ Analysed
    /\ tech_data[1].trend = "Downtrend"
    /\ tech_data[1].rsi_status = "Oversold"
    /\ tech_data[1].signal = "WAIT"

\* C12: trend is Uptrend iff the last price is strictly above the 50-bar
\* mean and Downtrend otherwise; momentum is Overbought iff RSI > 70,
\* Oversold iff RSI < 30 and Neutral otherwise, so that a price equal to the
\* mean is a Downtrend and an RSI of exactly 70 or 30 is Neutral.
C12_StrictThresholds ==
    Analysed =>
        LET t == tech_data[1]
            price == t.price[1]
            sma == t.sma[1]
            rsi == t.rsi[1]
        IN  /\ t.trend = "Uptrend" <=> price * sma[2] > sma[1]
            /\ t.trend = "Downtrend" <=> price * sma[2] <= sma[1]
            /\ t.rsi_status = "Overbought" <=> (rsi[2] > 0 /\ rsi[1] > 70 * rsi[2])
            /\ t.rsi_status = "Oversold" <=> (rsi[2] > 0 /\ rsi[1] < 30 * rsi[2])
            /\ t.rsi_status = "Neutral" <=>
                   ~(rsi[2] > 0 /\ (rsi[1] > 70 * rsi[2] \/ rsi[1] < 30 * rsi[2]))

\* an RSI of exactly 70
C12_Witness ==
    /\ Analysed
    /\ tech_data[1].rsi[1][2] > 0
    /\ tech_data[1].rsi[1][1] = 70 * tech_data[1].rsi[1][2]
    /\ tech_data[1].rsi_status = "Neutral"

\* the other boundaries of C12
RsiExactly30 ==
    /\ Analysed
    /\ tech_data[1].rsi[1][2] > 0
    /\ tech_data[1].rsi[1][1] = 30 * tech_data[1].rsi[1][2]
    /\ tech_data[1].rsi_status = "Neutral"

PriceAtMean ==
    /\ Analysed
    /\ tech_data[1].price[1] * tech_data[1].sma[1][2] = tech_data[1].sma[1][1]
    /\ tech_data[1].trend = "Downtrend"

\* C20: the sentinel record is returned exactly for a history of fewer than
\* 50 bars, and the narrative built from it has its three paragraphs, the
\* second being the fixed text.
C20_SentinelIffShort ==
    /\ tech_data # None =>
           LET t == tech_data[1]
           IN  /\ Len(input[1]) < 50 <=> t.price = None
               /\ t.price = None =>
                      /\ t.rsi = None
                      /\ t.sma = None
                      /\ t.signal = "UNKNOWN"
                      /\ t.trend = "Unknown"
                      /\ t.rsi_status = "Unknown"
               /\ t.price # None => t.rsi # None /\ t.sma # None /\ t.signal # "UNKNOWN"
    /\ (narrative # None /\ tech_data[1].price = None) =>
           LET n == narrative[1]
           IN  /\ n.technical_paragraph = TechnicalUnavailable
               /\ Len(n.full_narrative) = 3
               /\ n.full_narrative =
                      <<n.fundamental_paragraph, TechnicalUnavailable, n.weather_paragraph>>

C20_Witness ==
    /\ input # None
    /\ Len(input[1]) = 49
    /\ narrative # None
    /\ tech_data[1].price = None
    /\ narrative[1].full_narrative[2] = TechnicalUnavailable

\* the value columns of a text that hold a reading: line i qualifies and
\* column k, one of its first twelve value columns, is a number not below -90
Readings(lines) ==
    { p \in (DOMAIN lines) \X (2..13) :
        /\ lines[p[1]] # <<>>
        /\ isdigit(lines[p[1]][1])
        /\ Len(lines[p[1]]) > 2
        /\ p[2] <= Len(lines[p[1]])
        /\ float_of(lines[p[1]][p[2]]) # None
        /\ float_of(lines[p[1]][p[2]])[1] >= -9000 }

\* the reading that comes last in file order, then left to right
LastReading(lines) ==
    CHOOSE p \in Readings(lines) :
        \A q \in Readings(lines) : q[1] < p[1] \/ (q[1] = p[1] /\ q[2] <= p[2])

C14_StrictPolarity ==
    (entry = "get_enso_signal" /\ enso # None /\ enso[1].value # None) =>
        LET value == enso[1].value[1]
            signal == enso[1].signal
        IN  /\ signal \in {"BULLISH", "BEARISH", "NEUTRAL"}
            /\ signal = "BULLISH" <=> value > 120
            /\ signal = "BEARISH" <=> value < -100
            /\ signal = "NEUTRAL" <=> (-100 <= value /\ value <= 120)

C14_Witness ==
    /\ entry = "get_enso_signal"
    /\ enso # None
    /\ enso[1].value = Some(120)
    /\ enso[1].signal = "NEUTRAL"

\* the lower boundary of C14
OniExactlyMinusOne ==
    /\ entry = "get_enso_signal"
    /\ enso # None
    /\ enso[1].value = Some(-100)
    /\ enso[1].signal = "NEUTRAL"

\* the region record of a region assessed on its own, with its feed
RegionAssessed == entry = "analyze_weather" /\ results.regions # <<>>
AssessedRegion == results.regions[1]
AssessedFeed == input[1]

\* the readings that are present, their number and their sum
Present(values) == { i \in DOMAIN values : values[i] # None }
RECURSIVE SumAt(_, _)
SumAt(values, idx) ==
    IF idx = {} THEN 0
    ELSE LET i == CHOOSE j \in idx : TRUE
         IN  values[i][1] + SumAt(values, idx \ {i})
SumPresent(values) == SumAt(values, Present(values))

\* the yearly totals, the current one, and the z-score of the current one
\* against -num/den: z = d * sqrt(n - 1) / sqrt(SS), d = n * current - sum
YearTotals == [y \in 1..5 |-> SumPresent(AssessedFeed.precipitation[y])]
TotalsSum == SumAt([y \in 1..5 |-> <<YearTotals[y]>>], 1..5)
ZNumerator == 5 * YearTotals[5] - TotalsSum
ZSquares ==
    SumAt([y \in 1..5 |->
             <<(5 * YearTotals[y] - TotalsSum) * (5 * YearTotals[y] - TotalsSum)>>], 1..5)
ZBelow(num, den) ==
    ZNumerator < 0 /\ den * den * 4 * ZNumerator * ZNumerator > num * num * ZSquares
ZIs(num, den) ==
    ZNumerator < 0 /\ den * den * 4 * ZNumerator * ZNumerator = num * num * ZSquares

\* C15: the drought tier is Severe iff z < -1.5, Dry iff -1.5 <= z < -1.0
\* and Normal iff z >= -1.0, so that z = -1.5 is Dry and z = -1.0 is Normal;
\* the region is listed as severely dry iff its tier is Severe.
C15_DroughtTiers ==
    RegionAssessed =>
        LET status == AssessedRegion.drought_status
        IN  /\ status = "Severe Drought" <=> ZBelow(15, 10)
            /\ status = "Dry Warning" <=> (~ZBelow(15, 10) /\ ZBelow(10, 10))
            /\ status = "Normal" <=> ~ZBelow(10, 10)
            /\ ZIs(15, 10) => status = "Dry Warning"
            /\ ZIs(10, 10) => status = "Normal"
            /\ (\E i \in DOMAIN results.severe_drought_regions :
                    results.severe_drought_regions[i] = AssessedRegion.name)
               <=> status = "Severe Drought"

\* z is exactly -1.5
C15_Witness ==
    /\ RegionAssessed
    /\ YearTotals = <<102, 101, 101, 99, 97>>
    /\ ZIs(15, 10)
    /\ AssessedRegion.drought_status = "Dry Warning"
    /\ results.severe_drought_regions = <<>>

\* z is exactly -1.0
ZExactlyMinusOne ==
    /\ RegionAssessed
    /\ ZIs(10, 10)
    /\ AssessedRegion.drought_status = "Normal"

\* the days of the window with a reading strictly above 32.0
HotDays(temps) == { i \in Present(temps) : temps[i][1] > 320 }

\* C16: the heat tier is Critical iff at least 7 days of the window have a
\* maximum strictly above 32.0; a missing reading is not a hot day and does
\* not enter the mean, and replacing a reading by a missing one never
\* raises the count.
C16_HeatTier ==
    RegionAssessed =>
        LET temps == AssessedFeed.temperature_2m_max
        IN  /\ AssessedRegion.days_above_32 = Cardinality(HotDays(temps))
            /\ AssessedRegion.heat_status = "Critical Heat"
                   <=> Cardinality(HotDays(temps)) >= 7
            /\ AssessedRegion.heat_status = "Normal"
                   <=> Cardinality(HotDays(temps)) < 7
            /\ IF Present(temps) = {}
               THEN output[1].avg_max_temp = <<0, 1>>
               ELSE output[1].avg_max_temp =
                        <<SumPresent(temps), Cardinality(Present(temps))>>
            /\ \A i \in DOMAIN temps :
                   days_above_32_of([temps EXCEPT ![i] = None])
                       <= AssessedRegion.days_above_32

\* six days above 32.0, one at exactly 32.0 and one missing
C16_Witness ==
    /\ RegionAssessed
    /\ Cardinality(HotDays(AssessedFeed.temperature_2m_max)) = 6
    /\ \E i \in DOMAIN AssessedFeed.temperature_2m_max :
           AssessedFeed.temperature_2m_max[i] = Some(320)
    /\ \E i \in DOMAIN AssessedFeed.temperature_2m_max :
           AssessedFeed.temperature_2m_max[i] = None
    /\ AssessedRegion.heat_status = "Normal"

SevenHotDays ==
    /\ RegionAssessed
    /\ Cardinality(HotDays(AssessedFeed.temperature_2m_max)) = 7
    /\ AssessedRegion.heat_status = "Critical Heat"

\* C17: the harmattan tier is Active iff the mean of the wind readings
\* present is above 46 and the mean of the humidity readings present is
\* below 40; without any humidity reading the mean is taken as 100 and the
\* tier is Normal.
C17_HarmattanTier ==
    RegionAssessed =>
        LET wind == AssessedFeed.wind_speed_10m_max
            humidity == AssessedFeed.relative_humidity_2m_mean
            windy == /\ Present(wind) # {}
                     /\ SumPresent(wind) > 460 * Cardinality(Present(wind))
            dry == /\ Present(humidity) # {}
                   /\ SumPresent(humidity) < 400 * Cardinality(Present(humidity))
        IN  /\ AssessedRegion.harmattan_status = "Harmattan Active" <=> (windy /\ dry)
            /\ AssessedRegion.harmattan_status = "Normal" <=> ~(windy /\ dry)
            /\ Present(humidity) = {} =>
                   /\ output[1].avg_humidity = <<1000, 1>>
                   /\ AssessedRegion.harmattan_status = "Normal"
                   /\ pc # "crashed"

\* wind above 46 and no humidity reading at all
C17_Witness ==
    /\ RegionAssessed
    /\ Present(AssessedFeed.relative_humidity_2m_mean) = {}
    /\ SumPresent(AssessedFeed.wind_speed_10m_max)
           > 460 * Cardinality(Present(AssessedFeed.wind_speed_10m_max))
    /\ AssessedRegion.harmattan_status = "Normal"

\* wind at exactly 46 with dry air, and wind above 46 with humidity at exactly 40
HarmattanBoundaries ==
    /\ RegionAssessed
    /\ AssessedRegion.harmattan_status = "Normal"
    /\ Present(AssessedFeed.wind_speed_10m_max) # {}
    /\ Present(AssessedFeed.relative_humidity_2m_mean) # {}
    /\ \/ /\ SumPresent(AssessedFeed.wind_speed_10m_max)
               = 460 * Cardinality(Present(AssessedFeed.wind_speed_10m_max))
          /\ SumPresent(AssessedFeed.relative_humidity_2m_mean)
               = 390 * Cardinality(Present(AssessedFeed.relative_humidity_2m_mean))
       \/ /\ SumPresent(AssessedFeed.wind_speed_10m_max)
               = 470 * Cardinality(Present(AssessedFeed.wind_speed_10m_max))
          /\ SumPresent(AssessedFeed.relative_humidity_2m_mean)
               = 400 * Cardinality(Present(AssessedFeed.relative_humidity_2m_mean))

\* keyword kw occurs in text, whatever the case of the letters of text
Occurs(kw, text) ==
    \E i \in 0..(Len(text) - Len(kw)) :
        \A j \in 1..Len(kw) :
            \/ text[i + j] = kw[j]
            \/ \E k \in DOMAIN LowerCase : LowerCase[k] = kw[j] /\ UpperCase[k] = text[i + j]

\* the (headline, keyword) pairs of a feed that match
Hits(feed, keywords) ==
    { p \in (DOMAIN feed) \X (DOMAIN keywords) : Occurs(keywords[p[2]], feed[p[1]]) }

\* C18: each headline is matched against both keyword lists without regard
\* to case, each match adds one to the count of its vocabulary (a headline
\* matching both adds to both), and the sentiment is BULLISH iff the bullish
\* count is larger, BEARISH iff the bearish count is larger, NEUTRAL iff
\* they are equal; the two headlines of the scenario give 1/1 and NEUTRAL.
C18_KeywordCounts ==
    (entry = "get_news_sentiment" /\ output # None) =>
        LET feed == input[1]
            news == output[1]
        IN  /\ news.bullish_count = Cardinality(Hits(feed, BULLISH_KEYWORDS))
            /\ news.bearish_count = Cardinality(Hits(feed, BEARISH_KEYWORDS))
            /\ news.sentiment = "BULLISH" <=> news.bullish_count > news.bearish_count
            /\ news.sentiment = "BEARISH" <=> news.bearish_count > news.bullish_count
            /\ news.sentiment = "NEUTRAL" <=> news.bullish_count = news.bearish_count
            /\ feed = <<ShortageHeadline, RainHeadline>> =>
                   /\ news.bullish_count = 1
                   /\ news.bearish_count = 1
                   /\ news.sentiment = "NEUTRAL"
            /\ feed = <<UpperCaseHeadline>> =>
                   news.bullish_count = 1 /\ news.bearish_count = 1

C18_Witness ==
    /\ entry = "get_news_sentiment"
    /\ output # None
    /\ input[1] = <<ShortageHeadline, RainHeadline>>
    /\ output[1].bullish_count = 1
    /\ output[1].bearish_count = 1
    /\ output[1].sentiment = "NEUTRAL"

\* no keyword at all, and a headline of both vocabularies on its own
NoMatchNeutral ==
    /\ entry = "get_news_sentiment"
    /\ output # None
    /\ output[1].bullish_count = 0
    /\ output[1].bearish_count = 0
    /\ input[1] # <<>>
    /\ output[1].sentiment = "NEUTRAL"

BothVocabularies ==
    /\ entry = "get_news_sentiment"
    /\ output # None
    /\ input[1] = <<UpperCaseHeadline>>
    /\ output[1].sentiment = "NEUTRAL"

\* C19: when the ONI text holds no reading, get_enso_signal returns the
\* UNKNOWN record and the run of run_dashboard or generate_html that
\* received it goes on to its end: it is never left by an exception raised
\* on the absent value. (A run whose price history is too short is left
\* aside: its page fails on the absent SMA.)
C19_UnknownDoesNotCrash ==
    (/\ entry \in {"run_dashboard", "generate_html"}
     /\ enso # None
     /\ enso[1].signal = "UNKNOWN"
     /\ enso[1].value = None
     /\ (tech_data # None => tech_data[1].sma # None))
        => pc # "crashed"

\* the parts of C19 that hold: a text without a reading gives the UNKNOWN
\* record with value, year and month absent, and no other text does
UnknownIffNoReading ==
    (entry = "get_enso_signal" /\ enso # None) =>
        /\ enso[1].signal = "UNKNOWN" <=> Readings(input[1]) = {}
        /\ enso[1].signal = "UNKNOWN" =>
               enso[1].value = None /\ enso[1].year = None /\ enso[1].month = None

\* and the fusion step of generate_html, which runs before the page is
\* rendered, emits no climate signal for the UNKNOWN record
UnknownEmitsNoSignal ==
    (entry = "generate_html" /\ verdict # None /\ enso[1].signal = "UNKNOWN") =>
        \A i \in DOMAIN verdict[1].signals :
            verdict[1].signals[i].name \notin {"El Nino Active", "La Nina Active"}

\* both are reached
UnknownReachesFusion ==
    entry = "generate_html" /\ verdict # None /\ enso[1].signal = "UNKNOWN"

NoReadingText ==
    entry = "get_enso_signal" /\ enso # None /\ enso[1].signal = "UNKNOWN"
    /\ Len(input[1]) = 3

\* ------------------------------------------------------------------ C21..C30
\* C21: a region whose z-score is undefined, its five yearly totals being
\* equal (all 0 mm when no reading is present), does not end the run of
\* analyze_weather with an exception.
C21_UndefinedZScoreRecovers ==
    (entry = "analyze_weather" /\ ZSquares = 0) => pc # "crashed"

\* the bar-to-bar deltas of the last 14 bars of the history analysed, and
\* the sums of the rises and of the falls among them
LastDeltas ==
    LET closes == input[1]
    IN  [i \in (Len(closes) - 13)..Len(closes) |-> closes[i] - closes[i - 1]]
Rises(deltas) ==
    SumAt([i \in DOMAIN deltas |-> <<IF deltas[i] > 0 THEN deltas[i] ELSE 0>>], DOMAIN deltas)
Falls(deltas) ==
    SumAt([i \in DOMAIN deltas |-> <<IF deltas[i] < 0 THEN 0 - deltas[i] ELSE 0>>], DOMAIN deltas)

\* C22: an RSI over a window that never loses (average loss 0) is exactly
\* 100, not an undefined value.
C22_NoLossGivesHundred ==
    (entry = "technical_analysis" /\ Analysed /\ Falls(LastDeltas) = 0) =>
        LET rsi == tech_data[1].rsi[1]
        IN  rsi[2] > 0 /\ rsi[1] = 100 * rsi[2]

\* the parts of C22 that hold: the value is 100 - 100 / (1 + rises / falls),
\* that is 100 * rises / (rises + falls), it lies in [0, 100] as soon as one
\* delta of the window is not 0, and it is 100 when the window has a rise
\* and no fall
RsiFormulaAndRange ==
    (entry = "technical_analysis" /\ Analysed
     /\ Rises(LastDeltas) + Falls(LastDeltas) > 0) =>
        LET rsi == tech_data[1].rsi[1]
        IN  /\ rsi[2] > 0
            /\ rsi[1] * (Rises(LastDeltas) + Falls(LastDeltas))
                   = 100 * Rises(LastDeltas) * rsi[2]
            /\ 0 <= rsi[1] /\ rsi[1] <= 100 * rsi[2]
            /\ Falls(LastDeltas) = 0 => rsi[1] = 100 * rsi[2]

AllGainsWindow ==
    /\ entry = "technical_analysis" /\ Analysed
    /\ Rises(LastDeltas) > 0 /\ Falls(LastDeltas) = 0
    /\ tech_data[1].rsi[1][1] = 100 * tech_data[1].rsi[1][2]

\* the status fundamentals.json holds, "NEUTRAL" when none was ever written
PersistedStatus ==
    IF config # None /\ config[1].news_sentiment_status # None
    THEN config[1].news_sentiment_status[1]
    ELSE "NEUTRAL"

\* C23: the dashboard run that follows the scorer's write-through hands the
\* persisted status to the narrative as its news sentiment; the narrative's
\* news sentiment is neutral only when the persisted status is neutral or
\* nothing was persisted.
C23_NarrativeReadsPersistedStatus ==
    (entry = "generate_html" /\ narrative # None) =>
        narrative[1].news_sentiment = PersistedStatus

\* the file as it was before the first run of the scorer
FileBefore == IF input[1] = None THEN EmptyConfig ELSE input[1][1]

\* C24: after any number of write-throughs the file holds the last status
\* written under news_sentiment_status and every other key as it was before
\* (an absent file gives a file with that one key), so the multiplier read
\* from it is the same; writing a status a second time changes nothing.
C24_WriteThroughMerges ==
    output # None =>
        /\ config # None
        /\ config[1].news_sentiment_status = Some(output[1].status)
        /\ config[1].global_stocks_to_usage_ratio = FileBefore.global_stocks_to_usage_ratio
        /\ config[1].last_updated = FileBefore.last_updated
        /\ (input[1] = None => config[1] = ConfigFile(None, Some(output[1].status), None))
        /\ \A status \in PersistedStatuses :
               update_fundamentals(update_fundamentals(config, status), status) =
                   update_fundamentals(config, status)

\* a write-through changed the status of a file that held a ratio
C24_Witness ==
    /\ output # None
    /\ FileBefore.global_stocks_to_usage_ratio # None
    /\ FileBefore.last_updated # None
    /\ FileBefore.news_sentiment_status # None
    /\ FileBefore.news_sentiment_status # config[1].news_sentiment_status

\* the estimate of the holding-time record for a trigger type, if any
HasEstimate(holding, trigger, duration) ==
    \E i \in DOMAIN holding.all_triggers :
        /\ holding.all_triggers[i].trigger = trigger
        /\ holding.all_triggers[i].duration = duration

\* C25: in a generate_html run whose climate index polarity is bullish, the
\* narrative's holding estimate lists the climate-index trigger with the
\* duration "6-8 months" and that trigger is the primary one.
C25_BullishIndexDrivesHolding ==
    (entry = "generate_html" /\ narrative # None /\ enso[1].signal = "BULLISH") =>
        LET holding == narrative[1].holding_time
        IN  /\ HasEstimate(holding, "El Nino", "6-8 months")
            /\ holding.primary_trigger = "El Nino"
            /\ holding.primary_duration = "6-8 months"

\* the value columns that hold a numeric reading: as Readings, without the
\* columns whose token is not a number
NumericReadings(lines) ==
    { p \in Readings(lines) : float_of(lines[p[1]][p[2]]) # NaN }

LastNumericReading(lines) ==
    CHOOSE p \in NumericReadings(lines) :
        \A q \in NumericReadings(lines) : q[1] < p[1] \/ (q[1] = p[1] /\ q[2] <= p[2])

\* the tokens of the value columns scanned
ScannedTokens(lines) ==
    { lines[p[1]][p[2]] : p \in { q \in (DOMAIN lines) \X (2..13) :
                                     /\ lines[q[1]] # <<>>
                                     /\ isdigit(lines[q[1]][1])
                                     /\ Len(lines[q[1]]) > 2
                                     /\ q[2] <= Len(lines[q[1]]) } }

\* what C26 states of one text and the result parse_oni_data gave for it
SkipsBadTokens(lines, parsed) ==
    IF NumericReadings(lines) = {}
    THEN parsed.value = None /\ parsed.year = None /\ parsed.month = None
    ELSE LET p == LastNumericReading(lines)
         IN  /\ parsed.value = float_of(lines[p[1]][p[2]])
             /\ parsed.year = Some(int_of(lines[p[1]][1]))
             /\ parsed.month = Some(month_names[p[2] - 1])

\* C26: parse_oni_data skips every value below -90 and every token that is
\* not a number and goes on with the columns and rows that follow, so the
\* result is the last numeric reading of the text, and no reading iff the
\* text holds no numeric value that is not a sentinel in a qualifying row.
C26_SkipsSentinelsAndNonNumbers ==
    output # None => SkipsBadTokens(input[1], output[1])

\* the same over the texts none of whose scanned tokens spells "nan"
SkipsWordsAndSentinels ==
    (output # None /\ ScannedTokens(input[1]) \cap NanSpellings = {}) =>
        SkipsBadTokens(input[1], output[1])

\* a reading kept across a word, a sentinel and the rows that follow
WordAndSentinelSkipped ==
    /\ output # None
    /\ input[1] = <<Row2024, Row2020, FooterRow>>
    /\ output[1] = [value |-> Some(40), year |-> Some(2024), month |-> Some("Apr")]

\* the tiers in their order
TierRank(tier) ==
    CASE tier = "Neutral" -> 0
      [] tier = "Cautious" -> 1
      [] tier = "ModerateBullish" -> 2
      [] tier = "HighConviction" -> 3
      [] tier = "MaxConviction" -> 4

\* the active value of each region condition
ActiveCondition ==
    [drought_status |-> "Severe Drought", heat_status |-> "Critical Heat",
     harmattan_status |-> "Harmattan Active"]

\* the weather record with one condition of region i made active and the
\* dual-region flag recomputed as analyze_weather computes it
Activated(weather, i, field) ==
    LET regions == [weather.regions EXCEPT ![i][field] = ActiveCondition[field]]
        severe == RegionsWith(regions, "drought_status", "Severe Drought")
    IN  [regions |-> regions, severe_drought_regions |-> severe,
         dual_region_drought_detected |-> Len(severe) >= 2]

\* the conditions of the weather record that are not active
Inactive(weather) ==
    { c \in (DOMAIN weather.regions) \X (DOMAIN ActiveCondition) :
        weather.regions[c[1]][c[2]] # ActiveCondition[c[2]] }

AppetiteRank(weather) ==
    TierRank(TierOfAppetite(calculate_risk_appetite(weather, enso[1], fundamentals[1]).verdict))

\* C27: making one more region condition active, the dual-region flag
\* recomputed and everything else the same, never lowers the tier
\* calculate_risk_appetite returns.
C27_MonotoneInWeatherStress ==
    (entry = "run_dashboard" /\ verdict # None) =>
        /\ verdict[1] = calculate_risk_appetite(results, enso[1], fundamentals[1])
        /\ \A c \in Inactive(results) :
               AppetiteRank(Activated(results, c[1], c[2])) >= AppetiteRank(results)

\* a verdict two steps below the top, and a drought in the second region
\* would raise the dual-region flag
C27_Witness ==
    /\ entry = "run_dashboard"
    /\ verdict # None
    /\ enso[1].signal = "BEARISH"
    /\ verdict[1].verdict = "MODERATE BULLISH"
    /\ \E c \in Inactive(results) :
           /\ Activated(results, c[1], c[2]).dual_region_drought_detected
           /\ AppetiteRank(Activated(results, c[1], c[2])) = 4

\* the correlated-risk warning is the last part of the full narrative
WarningInNarrative(n) ==
    /\ n.correlated_warning # None
    /\ Len(n.full_narrative) = 4
    /\ n.full_narrative[4] = n.correlated_warning[1].text

\* C28: for the weather record analyze_weather produces, whose dual-region
\* flag is (two or more regions in severe drought), the flag implies the
\* dual-region stress of the triggers; the critical dual-drought weather
\* paragraph comes with the correlated-risk warning in full_narrative, and
\* the verdict MaxConviction never comes without that warning.
C28_DualDroughtBringsWarning ==
    (entry = "generate_html" /\ narrative # None) =>
        LET n == narrative[1]
        IN  /\ results.dual_region_drought_detected =
                   (Len(RegionsWith(results.regions, "drought_status", "Severe Drought")) >= 2)
            /\ n.triggers = analyze_weather_triggers(results)
            /\ results.dual_region_drought_detected => n.triggers.dual_region_stress
            /\ n.weather_paragraph = "CRITICAL WEATHER ALERT" => WarningInNarrative(n)
            /\ TierOfVerdict(verdict[1].verdict) = "MaxConviction" => WarningInNarrative(n)

\* two regions in severe drought: the top verdict and the warning
C28_Witness ==
    /\ entry = "generate_html"
    /\ narrative # None
    /\ results.dual_region_drought_detected
    /\ verdict[1].verdict = "MAXIMUM CONVICTION LONG"
    /\ narrative[1].weather_paragraph = "CRITICAL WEATHER ALERT"
    /\ WarningInNarrative(narrative[1])

\* C29: the band of the fundamental paragraph and the band of the amplifier
\* explanation are the band calculate_position_multiplier gives the ratio:
\* "structural deficit" iff the multiplier is 2.5, "below comfortable
\* levels" iff it is 2.0, "adequate" / "healthy" iff it is 1.0.
C29_BandsAgree ==
    (entry = "market_narrative" /\ narrative # None) =>
        LET n == narrative[1]
            multiplier == calculate_position_multiplier(fundamentals[1].stocks_ratio)[1]
        IN  /\ fundamentals[1].multiplier = multiplier
            /\ (n.fundamental_paragraph = "structural deficit") <=> (multiplier = 25)
            /\ (n.amplifier_explanation = "structural deficit") <=> (multiplier = 25)
            /\ (n.fundamental_paragraph = "below comfortable levels") <=> (multiplier = 20)
            /\ (n.amplifier_explanation = "below comfortable levels") <=> (multiplier = 20)
            /\ (n.fundamental_paragraph = "adequate inventory") <=> (multiplier = 10)
            /\ (n.amplifier_explanation = "healthy") <=> (multiplier = 10)

\* a ratio on the boundary between the two lower bands
C29_Witness ==
    /\ entry = "market_narrative"
    /\ narrative # None
    /\ fundamentals[1].stocks_ratio = 3000
    /\ fundamentals[1].multiplier = 20
    /\ narrative[1].fundamental_paragraph = "below comfortable levels"
    /\ narrative[1].amplifier_explanation = "below comfortable levels"

\* the order in which the trigger types are listed
TriggerOrder == <<"Drought", "Heat Stress", "Harmattan Winds", "El Nino">>

\* the record returned when no trigger is active
NoPositionRecord ==
    [primary_duration |-> "N/A - No active position recommended",
     all_triggers |-> <<>>,
     exit_summary |-> "Wait for clear weather or fundamental trigger before entering"]

\* C30: calculate_holding_time lists at most four estimates, at most one
\* per trigger type, in the order Drought, Heat Stress, Harmattan Winds,
\* El Nino; the primary trigger of a non-empty list is one of its entries
\* and primary_duration, primary_exit and exit_summary are that entry's;
\* the list is empty iff the result is the no-position record.
C30_HoldingEstimateWellFormed ==
    (entry = "market_narrative" /\ narrative # None) =>
        LET holding == narrative[1].holding_time
            estimates == holding.all_triggers
        IN  /\ Len(estimates) <= 4
            /\ \A i \in DOMAIN estimates : 
                   estimates[i].trigger \in { TriggerOrder[k] : k \in DOMAIN TriggerOrder }
            /\ \A i, j \in DOMAIN estimates :
                   i < j => IndexOf(TriggerOrder, estimates[i].trigger)
                                < IndexOf(TriggerOrder, estimates[j].trigger)
            /\ (estimates = <<>>) <=> (holding = NoPositionRecord)
            /\ estimates # <<>> =>
                   \E i \in DOMAIN estimates :
                       /\ holding.primary_trigger = estimates[i].trigger
                       /\ holding.primary_duration = estimates[i].duration
                       /\ holding.primary_exit = estimates[i].exit_condition
                       /\ holding.exit_summary = estimates[i].exit_condition

\* all four estimates, two regions sharing the drought, the last one primary
C30_Witness ==
    /\ entry = "market_narrative"
    /\ narrative # None
    /\ Len(narrative[1].triggers.drought_regions) = 2
    /\ Len(narrative[1].holding_time.all_triggers) = 4
    /\ narrative[1].holding_time.primary_trigger = "El Nino"

====
